---- MODULE Spec2Model ----
(***************************************************************************)
(* A model of src/open_clip/model.py: the dual-tower models CLIP and        *)
(* VoxelCLIP (construction, forward/encode API, parameter initialisation,  *)
(* tower locking, fp16 conversion), the causal attention mask and the      *)
(* residual bottleneck block.                                              *)
(*                                                                         *)
(* Tensors are modelled by what the program depends on: their length along *)
(* the last axis and, for embeddings, a small integer vector together with *)
(* the square of the scalar it has been divided by.  Modules are records   *)
(* (path, type, parameters, children) listed in the order nn.Module.apply  *)
(* visits them.  A raised exception is an "error" result.                  *)
(***************************************************************************)
EXTENDS Integers, Sequences, FiniteSets, TLC

VARIABLES
    cls,                \* "CLIP" or "VoxelCLIP": the class being constructed
    args,               \* the constructor's arguments
    pc,                 \* "new", "ready" (constructed) or "failed" (__init__ raised)
    err,                \* the exception __init__ raised, NoError otherwise
    built,              \* the attributes __init__ has assigned, in order
    modules,            \* the modules of the constructed model, in model.apply order
    visual,             \* self.visual: the primary encoder
    secondary,          \* self.voxel_encoder / the text tower of CLIP
    logit_scale,        \* self.logit_scale
    attn_mask,          \* the buffer 'attn_mask' (CLIP only)
    frozen,             \* parameters whose requires_grad is False
    half,               \* parameters stored in half precision
    bn_frozen,          \* freeze_batch_norm_2d has been applied to self.visual
    grad_checkpointing, \* the grad_checkpointing flags: [visual, text]
    ret,                \* the outcome of the last call on the model
    blk,                \* a Bottleneck under construction / constructed
    bret,               \* the outcome of the last Bottleneck.forward
    state_dict,         \* a checkpoint: parameter path -> tensor
    input,              \* the input of an encoder's or a block's forward
    result              \* the outcome of the last call on state_dict or input

vars == <<cls, args, pc, err, built, modules, visual, secondary, logit_scale, attn_mask,
          frozen, half, bn_frozen, grad_checkpointing, ret, blk, bret, state_dict, input, result>>

modelVars == <<cls, args, pc, err, built, modules, visual, secondary, logit_scale, attn_mask,
               frozen, half, bn_frozen, grad_checkpointing, ret>>

blockVars == <<blk, bret>>

callVars == <<state_dict, input, result>>

(***************************************************************************)
(* Bounds of the model.                                                    *)
(***************************************************************************)
MaxEmbedDim == 2
MaxTextLayers == 1
MaxVisionLayers == 1
MaxCtx == 3
NumInputs == 1
MaxPlanes == 2
MaxStride == 2
MaxSpatial == 2
MaxImage == 4
MaxPatch == 2
MaxBatch == 3
MaxSeq == 2

\* the least spatial size the six conv blocks of NewVoxel3dConvEncoder reduce to a
\* non-empty map (strides 1, 1, 1, 2, 2, 2 and paddings 1, 1, 1, 0, 1, 0: 11 -> 5 -> 3 -> 1)
MinConvDim == 11

\* Python's None, for an input of forward (inputs are 1..NumInputs)
None == 0

Inputs == 1..NumInputs

NoError == [type |-> "none", msg |-> <<>>]

NoModule == [kind |-> "None", output_dim |-> 0]


(***************************************************************************)
(* Module trees.  A module is [path, type, params, kids]; a list of        *)
(* modules is in the order nn.Module.apply visits them (children in        *)
(* registration order, then the module itself).                            *)
(***************************************************************************)
Mod(path, type, params, kids) ==
    [path |-> path, type |-> type, params |-> params, kids |-> kids]

\* str(i) for the index of a block in a ModuleList / Sequential
IdxStr(i) ==
    <<"0", "1", "2", "3", "4", "5", "6", "7", "8", "9", "10", "11", "12", "13", "14">>[i + 1]

Range(s) == {s[i] : i \in DOMAIN s}

RECURSIVE Flatten(_)
Flatten(ss) == IF ss = <<>> THEN <<>> ELSE Head(ss) \o Flatten(Tail(ss))

\* the full names of the parameters of a list of modules (nn.Module.parameters)
ParamsOf(mods) == UNION {{m.path \o <<p>> : p \in m.params} : m \in Range(mods)}

\* act_layer(): nn.GELU or QuickGELU
ActType(quick_gelu) == IF quick_gelu THEN "QuickGELU" ELSE "GELU"

\* ResidualAttentionBlock.__init__: attn, ln_1, mlp (c_fc, [c_drop], c_act, proj), ln_2
ResidualAttentionBlockMods(p, act, dropout) ==
    <<Mod(p \o <<"attn", "out_proj">>, "Linear", {"weight", "bias"}, {}),
      Mod(p \o <<"attn">>, "MultiheadAttention", {"in_proj_weight", "in_proj_bias"}, {"out_proj"}),
      Mod(p \o <<"ln_1">>, "LayerNorm", {"weight", "bias"}, {}),
      Mod(p \o <<"mlp", "c_fc">>, "Linear", {"weight", "bias"}, {})>>
    \o (IF dropout > 0 THEN <<Mod(p \o <<"mlp", "c_drop">>, "Dropout", {}, {})>> ELSE <<>>)
    \o <<Mod(p \o <<"mlp", "c_act">>, act, {}, {}),
         Mod(p \o <<"mlp", "proj">>, "Linear", {"weight", "bias"}, {}),
         Mod(p \o <<"mlp">>, "Sequential", {},
             {"c_fc", "c_act", "proj"} \cup (IF dropout > 0 THEN {"c_drop"} ELSE {})),
         Mod(p \o <<"ln_2">>, "LayerNorm", {"weight", "bias"}, {}),
         Mod(p, "ResidualAttentionBlock", {}, {"attn", "ln_1", "mlp", "ln_2"})>>

\* the sub-layers nn.Sequential at path p applies, in the order it applies them: its
\* children in registration order
SequentialOrder(mods, p) ==
    [i \in 1..Len(SelectSeq(mods, LAMBDA m : Len(m.path) = Len(p) + 1
                                             /\ SubSeq(m.path, 1, Len(p)) = p)) |->
        SelectSeq(mods, LAMBDA m : Len(m.path) = Len(p) + 1
                                   /\ SubSeq(m.path, 1, Len(p)) = p)[i].path[Len(p) + 1]]

\* Transformer.__init__: resblocks = ModuleList of `layers` blocks
TransformerMods(p, layers, act, dropout) ==
    Flatten([i \in 1..layers |->
                ResidualAttentionBlockMods(p \o <<"resblocks", IdxStr(i - 1)>>, act, dropout)])
    \o <<Mod(p \o <<"resblocks">>, "ModuleList", {}, {IdxStr(i - 1) : i \in 1..layers}),
         Mod(p, "Transformer", {}, {"resblocks"})>>

\* VisualTransformer.__init__ (also the base of Voxel2DVisualTransformer)
VisualTransformerMods(p, type, layers, act, dropout) ==
    <<Mod(p \o <<"conv1">>, "Conv2d", {"weight"}, {}),
      Mod(p \o <<"ln_pre">>, "LayerNorm", {"weight", "bias"}, {})>>
    \o TransformerMods(p \o <<"transformer">>, layers, act, dropout)
    \o <<Mod(p \o <<"ln_post">>, "LayerNorm", {"weight", "bias"}, {}),
         Mod(p, type, {"class_embedding", "positional_embedding", "proj"},
             {"conv1", "ln_pre", "transformer", "ln_post"})>>

\* VisualTransformer3d.__init__
VisualTransformer3dMods(p, layers, act, dropout) ==
    <<Mod(p \o <<"conv1">>, "Conv3d", {"weight"}, {}),
      Mod(p \o <<"ln_pre">>, "LayerNorm", {"weight", "bias"}, {})>>
    \o TransformerMods(p \o <<"transformer">>, layers, act, dropout)
    \o <<Mod(p \o <<"ln_post">>, "LayerNorm", {"weight", "bias"}, {}),
         Mod(p, "VisualTransformer3d", {"class_embedding", "position_embedding", "proj"},
             {"conv1", "ln_pre", "transformer", "ln_post"})>>

\* FlatTransformer.__init__
FlatTransformerMods(p, layers, act, dropout) ==
    <<Mod(p \o <<"conv1">>, "Conv1d", {"weight"}, {}),
      Mod(p \o <<"ln_pre">>, "LayerNorm", {"weight", "bias"}, {})>>
    \o TransformerMods(p \o <<"transformer">>, layers, act, dropout)
    \o <<Mod(p \o <<"ln_post">>, "LayerNorm", {"weight", "bias"}, {}),
         Mod(p, "FlatTransformer", {"positional_embedding", "proj"},
             {"conv1", "ln_pre", "transformer", "ln_post"})>>

\* 'fc{}'.format(i), 'gelu{}'.format(i + 2), ... : the names of the MLP's hidden layers
MLPName(kind, i) ==
    CASE kind = "fc" -> <<"fc0", "fc1", "fc2", "fc3">>[i + 1]
      [] kind = "gelu" -> <<"gelu0", "gelu1", "gelu2", "gelu3", "gelu4">>[i + 1]
      [] kind = "dropout" -> <<"dropout0", "dropout1", "dropout2", "dropout3", "dropout4">>[i + 1]
      [] kind = "ln" -> <<"ln0", "ln1", "ln2", "ln3", "ln4">>[i + 1]

\* MLP.__init__: input, (fc, gelu, dropout, ln) * (num_layers - 1), output
MLPMods(p, num_layers, act) ==
    <<Mod(p \o <<"layers", "input">>, "Linear", {"weight", "bias"}, {})>>
    \o Flatten([i \in 1..(num_layers - 1) |->
         <<Mod(p \o <<"layers", MLPName("fc", i - 1)>>, "Linear", {"weight", "bias"}, {}),
           Mod(p \o <<"layers", MLPName("gelu", i + 1)>>, act, {}, {}),
           Mod(p \o <<"layers", MLPName("dropout", i + 1)>>, "Dropout", {}, {}),
           Mod(p \o <<"layers", MLPName("ln", i + 1)>>, "LayerNorm", {"weight", "bias"}, {})>>])
    \o <<Mod(p \o <<"layers", "output">>, "Linear", {"weight", "bias"}, {}),
         Mod(p \o <<"layers">>, "Sequential", {},
             {"input", "output"}
               \cup {MLPName("fc", i - 1) : i \in 1..(num_layers - 1)}
               \cup {MLPName(k, i + 1) : k \in {"gelu", "dropout", "ln"}, i \in 1..(num_layers - 1)}),
         Mod(p, "MLP", {}, {"layers"})>>

\* _get_conv_layer: Sequential(Conv3d, Dropout3d, act_layer())
ConvLayerMods(p, act) ==
    <<Mod(p \o <<"0">>, "Conv3d", {"weight", "bias"}, {}),
      Mod(p \o <<"1">>, "Dropout3d", {}, {}),
      Mod(p \o <<"2">>, act, {}, {}),
      Mod(p, "Sequential", {}, {"0", "1", "2"})>>

\* len(self.channels) in NewVoxel3dConvEncoder.__init__
NewVoxelConvBlocks == 6

\* NewVoxel3dConvEncoder.__init__: conv_blocks, transformer, proj
NewVoxel3dConvEncoderMods(p, type, average_output, act) ==
    Flatten([i \in 1..NewVoxelConvBlocks |->
                ConvLayerMods(p \o <<"conv_blocks", IdxStr(i - 1)>>, act)])
    \o <<Mod(p \o <<"conv_blocks">>, "ModuleList", {},
             {IdxStr(i - 1) : i \in 1..NewVoxelConvBlocks})>>
    \o TransformerMods(p \o <<"transformer">>, 2, act, 0)
    \o (IF average_output THEN <<>>
        ELSE <<Mod(p \o <<"proj">>, "Linear", {"weight", "bias"}, {})>>)
    \o (IF type = "EmbeddingVoxel3dConvEncoder"
        THEN <<Mod(p \o <<"token_embedding">>, "Embedding", {"weight"}, {})>> ELSE <<>>)
    \o <<Mod(p, type, IF average_output THEN {"proj"} ELSE {},
             {"conv_blocks", "transformer"}
               \cup (IF average_output THEN {} ELSE {"proj"})
               \cup (IF type = "EmbeddingVoxel3dConvEncoder" THEN {"token_embedding"} ELSE {}))>>


(***************************************************************************)
(* Residual bottleneck block and ModifiedResNet.                           *)
(***************************************************************************)
\* Bottleneck.expansion
Expansion == 4

\* a block that builds its downsample branch for a stride only
NeedsDownsampleStrideOnly(inplanes, planes, stride) ==
    stride > 1

\* the condition under which Bottleneck.__init__ builds self.downsample
NeedsDownsample(inplanes, planes, stride) ==
    stride > 1 \/ inplanes # planes * Expansion

\* Bottleneck.__init__(inplanes, planes, stride)
BottleneckInit(inplanes, planes, stride) ==
    [inplanes   |-> inplanes,
     planes     |-> planes,
     stride     |-> stride,
     out_planes |-> planes * Expansion,
     avgpool    |-> IF stride > 1 THEN "AvgPool2d" ELSE "Identity",
     downsample |-> NeedsDownsample(inplanes, planes, stride)]

\* the modules of a Bottleneck, in registration order
BottleneckMods(p, b) ==
    <<Mod(p \o <<"conv1">>, "Conv2d", {"weight"}, {}),
      Mod(p \o <<"bn1">>, "BatchNorm2d", {"weight", "bias"}, {}),
      Mod(p \o <<"relu1">>, "ReLU", {}, {}),
      Mod(p \o <<"conv2">>, "Conv2d", {"weight"}, {}),
      Mod(p \o <<"bn2">>, "BatchNorm2d", {"weight", "bias"}, {}),
      Mod(p \o <<"relu2">>, "ReLU", {}, {}),
      Mod(p \o <<"avgpool">>, b.avgpool, {}, {}),
      Mod(p \o <<"conv3">>, "Conv2d", {"weight"}, {}),
      Mod(p \o <<"bn3">>, "BatchNorm2d", {"weight", "bias"}, {}),
      Mod(p \o <<"relu3">>, "ReLU", {}, {})>>
    \o (IF b.downsample
        THEN <<Mod(p \o <<"downsample", "-1">>, "AvgPool2d", {}, {}),
               Mod(p \o <<"downsample", "0">>, "Conv2d", {"weight"}, {}),
               Mod(p \o <<"downsample", "1">>, "BatchNorm2d", {"weight", "bias"}, {}),
               Mod(p \o <<"downsample">>, "Sequential", {}, {"-1", "0", "1"})>>
        ELSE <<>>)
    \o <<Mod(p, "Bottleneck", {},
             {"conv1", "bn1", "relu1", "conv2", "bn2", "relu2", "avgpool", "conv3", "bn3", "relu3"}
               \cup (IF b.downsample THEN {"downsample"} ELSE {}))>>

\* a feature map: channels c, spatial size hw x hw, and the value it holds
\* (a term: the name of the operation that made it and what it was applied to)
Tensor(c, hw, term) == [c |-> c, hw |-> hw, term |-> term]

\* Bottleneck.forward(x): the steps it executes, each [op, in, out], and the result
BottleneckForward(b, x) ==
    LET t1 == Tensor(b.planes, x.hw, <<"relu1.bn1.conv1", x.term>>)
        t2 == Tensor(b.planes, x.hw, <<"relu2.bn2.conv2", t1.term>>)
        t3 == Tensor(b.planes, x.hw \div b.stride, <<"avgpool", t2.term>>)
        t4 == Tensor(b.out_planes, t3.hw, <<"bn3.conv3", t3.term>>)
        identity == IF b.downsample
                    THEN Tensor(b.out_planes, x.hw \div b.stride, <<"downsample", x.term>>)
                    ELSE x
        steps == <<[op |-> "conv1", in |-> x.term, out |-> t1.term],
                   [op |-> "conv2", in |-> t1.term, out |-> t2.term],
                   [op |-> "avgpool", in |-> t2.term, out |-> t3.term],
                   [op |-> "conv3", in |-> t3.term, out |-> t4.term]>>
                 \o (IF b.downsample
                     THEN <<[op |-> "downsample", in |-> x.term, out |-> identity.term]>>
                     ELSE <<>>)
                 \o <<[op |-> "add", in |-> <<t4.term, identity.term>>,
                       out |-> <<"add", t4.term, identity.term>>]>>
    IN  IF x.c # b.inplanes
        THEN [status |-> "error", steps |-> <<>>, identity |-> x, main |-> x, out |-> x,
              error |-> [type |-> "RuntimeError", msg |-> <<"conv1 input channels">>]]
        ELSE IF x.hw \div b.stride = 0
        THEN [status |-> "error", steps |-> SubSeq(steps, 1, 2), identity |-> x, main |-> t2,
              out |-> x,
              error |-> [type |-> "RuntimeError", msg |-> <<"avgpool: output size is too small">>]]
        ELSE IF identity.c # t4.c \/ identity.hw # t4.hw
        THEN [status |-> "error", steps |-> SubSeq(steps, 1, Len(steps) - 1),
              identity |-> identity, main |-> t4, out |-> x,
              error |-> [type |-> "RuntimeError", msg |-> <<"out += identity: shapes differ">>]]
        ELSE [status |-> "ok", steps |-> steps, identity |-> identity, main |-> t4,
              out |-> Tensor(t4.c, t4.hw, <<"relu3", <<"add", t4.term, identity.term>>>>),
              error |-> NoError]


\* a _make_layer that leaves planes, not planes * expansion, in self._inplanes
MakeLayerKeepsPlanes(inplanes, planes, blocks, stride) ==
    [blocks   |-> <<BottleneckInit(inplanes, planes, stride)>>
                  \o [i \in 1..(blocks - 1) |-> BottleneckInit(planes, planes, 1)],
     inplanes |-> planes]

\* ModifiedResNet._make_layer(planes, blocks, stride) with self._inplanes = inplanes:
\* the blocks it builds and the value it leaves in self._inplanes
MakeLayer(inplanes, planes, blocks, stride) ==
    [blocks   |-> <<BottleneckInit(inplanes, planes, stride)>>
                  \o [i \in 1..(blocks - 1) |-> BottleneckInit(planes * Expansion, planes, 1)],
     inplanes |-> planes * Expansion]

\* AttentionPool2d.__init__(spacial_dim, embed_dim, num_heads, output_dim)
AttentionPool2dInit(spacial_dim, embed_dim, num_heads, output_dim) ==
    [rows         |-> spacial_dim * spacial_dim + 1,
     embed_dim    |-> embed_dim,
     num_heads    |-> num_heads,
     out_features |-> IF output_dim # 0 THEN output_dim ELSE embed_dim]

\* ModifiedResNet.__init__(layers, output_dim, heads, image_size, width)
ModifiedResNetInit(layers, output_dim, heads, image_size, width) ==
    LET l1 == MakeLayer(width, width, layers[1], 1)
        l2 == MakeLayer(l1.inplanes, width * 2, layers[2], 2)
        l3 == MakeLayer(l2.inplanes, width * 4, layers[3], 2)
        l4 == MakeLayer(l3.inplanes, width * 8, layers[4], 2)
    IN  [kind       |-> "ModifiedResNet",
         output_dim |-> output_dim,
         image_size |-> image_size,
         width      |-> width,
         stages     |-> <<l1.blocks, l2.blocks, l3.blocks, l4.blocks>>,
         inplanes   |-> <<width, l1.inplanes, l2.inplanes, l3.inplanes>>,
         attnpool   |-> AttentionPool2dInit(image_size \div 32, width * 32, heads, output_dim),
         out_features |-> AttentionPool2dInit(image_size \div 32, width * 32, heads,
                                              output_dim).out_features,
         has_lock |-> TRUE, has_init_parameters |-> TRUE]

LayerName(i) == <<"layer1", "layer2", "layer3", "layer4">>[i]

\* the modules of a ModifiedResNet, in registration order
ModifiedResNetMods(p, v) ==
    <<Mod(p \o <<"conv1">>, "Conv2d", {"weight"}, {}),
      Mod(p \o <<"bn1">>, "BatchNorm2d", {"weight", "bias"}, {}),
      Mod(p \o <<"relu1">>, "ReLU", {}, {}),
      Mod(p \o <<"conv2">>, "Conv2d", {"weight"}, {}),
      Mod(p \o <<"bn2">>, "BatchNorm2d", {"weight", "bias"}, {}),
      Mod(p \o <<"relu2">>, "ReLU", {}, {}),
      Mod(p \o <<"conv3">>, "Conv2d", {"weight"}, {}),
      Mod(p \o <<"bn3">>, "BatchNorm2d", {"weight", "bias"}, {}),
      Mod(p \o <<"relu3">>, "ReLU", {}, {}),
      Mod(p \o <<"avgpool">>, "AvgPool2d", {}, {})>>
    \o Flatten([s \in 1..4 |->
          Flatten([i \in 1..Len(v.stages[s]) |->
                     BottleneckMods(p \o <<LayerName(s), IdxStr(i - 1)>>, v.stages[s][i])])
          \o <<Mod(p \o <<LayerName(s)>>, "Sequential", {},
                   {IdxStr(i - 1) : i \in 1..Len(v.stages[s])})>>])
    \o <<Mod(p \o <<"attnpool", "k_proj">>, "Linear", {"weight", "bias"}, {}),
         Mod(p \o <<"attnpool", "q_proj">>, "Linear", {"weight", "bias"}, {}),
         Mod(p \o <<"attnpool", "v_proj">>, "Linear", {"weight", "bias"}, {}),
         Mod(p \o <<"attnpool", "c_proj">>, "Linear", {"weight", "bias"}, {}),
         Mod(p \o <<"attnpool">>, "AttentionPool2d", {"positional_embedding"},
             {"k_proj", "q_proj", "v_proj", "c_proj"}),
         Mod(p, "ModifiedResNet", {},
             {"conv1", "bn1", "relu1", "conv2", "bn2", "relu2", "conv3", "bn3", "relu3",
              "avgpool", "layer1", "layer2", "layer3", "layer4", "attnpool"})>>

\* a VisualTransformer whose positional embedding has no row for the class token
VisualTransformerInitNoClassRow(image_size, patch_size, width, layers, heads, output_dim, act, input_channels, dropout) ==
    [kind           |-> "VisualTransformer",
     output_dim     |-> output_dim,
     image_size     |-> image_size,
     patch_size     |-> patch_size,
     grid_size      |-> <<image_size \div patch_size, image_size \div patch_size>>,
     width          |-> width,
     layers         |-> layers,
     heads          |-> heads,
     act            |-> act,
     input_channels |-> input_channels,
     dropout        |-> dropout,
     pos_rows       |-> (image_size \div patch_size) * (image_size \div patch_size),
     out_features   |-> output_dim,
     has_lock |-> TRUE, has_init_parameters |-> FALSE]

\* VisualTransformer.__init__(image_size, patch_size, width, layers, heads, mlp_ratio,
\*                            output_dim, act_layer, input_channels, dropout)
VisualTransformerInit(image_size, patch_size, width, layers, heads, output_dim, act, input_channels, dropout) ==
    [kind           |-> "VisualTransformer",
     output_dim     |-> output_dim,
     image_size     |-> image_size,
     patch_size     |-> patch_size,
     grid_size      |-> <<image_size \div patch_size, image_size \div patch_size>>,
     width          |-> width,
     layers         |-> layers,
     heads          |-> heads,
     act            |-> act,
     input_channels |-> input_channels,
     dropout        |-> dropout,
     pos_rows       |-> (image_size \div patch_size) * (image_size \div patch_size) + 1,
     out_features   |-> output_dim,
     has_lock |-> TRUE, has_init_parameters |-> FALSE]

\* TimmModel(model_name, pretrained, pool, proj, embed_dim, image_size): an external
\* encoder exposing forward(image) -> embedding and lock(unlocked_groups, freeze_bn_stats)
TimmModelInit(embed_dim, image_size) ==
    [kind |-> "TimmModel", output_dim |-> embed_dim, image_size |-> image_size,
     out_features |-> embed_dim, has_lock |-> TRUE, has_init_parameters |-> FALSE]

\* the modules of a TimmModel: opaque, a trunk and a head
TimmModelMods(p) ==
    <<Mod(p \o <<"trunk">>, "TimmTrunk", {"weight"}, {}),
      Mod(p \o <<"head">>, "TimmHead", {"weight"}, {}),
      Mod(p, "TimmModel", {}, {"trunk", "head"})>>

\* the branch on vision_cfg shared by CLIP.__init__ and VoxelCLIP.__init__:
\* the encoder assigned to self.visual
BuildVisual(embed_dim, vision_cfg, quick_gelu) ==
    IF vision_cfg.timm_model_name # ""
    THEN TimmModelInit(embed_dim, vision_cfg.image_size)
    ELSE IF vision_cfg.layers_kind = "tuple"
    THEN ModifiedResNetInit(vision_cfg.layers, embed_dim,
                            (vision_cfg.width * 32) \div vision_cfg.head_width,
                            vision_cfg.image_size, vision_cfg.width)
    ELSE VisualTransformerInit(vision_cfg.image_size, vision_cfg.patch_size,
                               vision_cfg.width, vision_cfg.layers[1],
                               vision_cfg.width \div vision_cfg.head_width,
                               embed_dim, ActType(quick_gelu), 3, 0)

\* act_layer after the vision branch: timm models force nn.GELU
ActAfterVisual(vision_cfg, quick_gelu) ==
    IF vision_cfg.timm_model_name # "" THEN "GELU" ELSE ActType(quick_gelu)

\* the modules of an encoder built by BuildVisual / the voxel branch
EncoderMods(p, e) ==
    CASE e.kind = "TimmModel" -> TimmModelMods(p)
      [] e.kind = "ModifiedResNet" -> ModifiedResNetMods(p, e)
      [] e.kind = "VisualTransformer" ->
            VisualTransformerMods(p, "VisualTransformer", e.layers, e.act, e.dropout)
      [] e.kind = "Voxel2DVisualTransformer" ->
            VisualTransformerMods(p, "Voxel2DVisualTransformer", e.layers, e.act, e.dropout)
      [] e.kind = "MLP" -> MLPMods(p, e.num_layers, e.act)
      [] e.kind \in {"NewVoxel3dConvEncoder", "EmbeddingVoxel3dConvEncoder"} ->
            NewVoxel3dConvEncoderMods(p, e.kind, e.average_output, e.act)
      [] e.kind = "VisualTransformer3d" -> VisualTransformer3dMods(p, e.layers, e.act, e.dropout)
      [] e.kind = "FlatTransformer" -> FlatTransformerMods(p, e.layers, e.act, e.dropout)
      [] e.kind = "None" -> <<>>


(***************************************************************************)
(* The voxel encoders VoxelCLIP selects among.                             *)
(***************************************************************************)
\* int(n / s) of Python for integers n and s > 0: the quotient truncated towards zero
TruncDiv(n, s) == IF n >= 0 THEN n \div s ELSE -((-n) \div s)

\* int((d + 2*padding - dialation*(kernel - 1) - 1)/(stride) + 1)
ConvOut(d, kernel, stride, padding, dialation) ==
    TruncDiv(d + 2 * padding - dialation * (kernel - 1) - 1 + stride, stride)

RECURSIVE ConvDims(_, _, _, _, _, _)
\* the loop over range(len(self.channels)) that folds dims through every conv layer
ConvDims(dims, n, strides, padding, dialation, kernel) ==
    IF n > Len(strides) THEN dims
    ELSE ConvDims([i \in DOMAIN dims |->
                      ConvOut(dims[i], kernel[n], strides[n], padding[n], dialation[n])],
                  n + 1, strides, padding, dialation, kernel)

\* NewVoxel3dConvEncoder.__init__(dims, attention_width, output_dim, c_in, average_output)
NewVoxel3dConvEncoderInit(kind, dims, attention_width, output_dim, c_in, average_output, act) ==
    LET channels  == <<64, 128, 256, 256, 256, attention_width>>
        strides   == <<1, 1, 1, 2, 2, 2>>
        padding   == <<1, 1, 1, 0, 1, 0>>
        dialation == <<1, 1, 1, 1, 1, 1>>
        kernel    == <<3, 3, 3, 3, 3, 3>>
        out       == ConvDims(dims, 1, strides, padding, dialation, kernel)
    IN  [kind            |-> kind,
         output_dim      |-> output_dim,
         dims            |-> dims,
         channels        |-> <<c_in>> \o channels,
         strides         |-> strides,
         padding         |-> padding,
         dialation       |-> dialation,
         kernel          |-> kernel,
         out_dims        |-> out,
         attention_width |-> attention_width,
         average_output  |-> average_output,
         proj_in         |-> IF average_output THEN attention_width
                             ELSE attention_width * out[1] * out[2] * out[3],
         act             |-> act,
         out_features    |-> output_dim,
         has_lock |-> FALSE, has_init_parameters |-> FALSE]

\* MLP.__init__(input_dim, output_dim, hidden_dim, num_layers, act_layer)
MLPInit(input_dim, output_dim, hidden_dim, num_layers, act) ==
    [kind |-> "MLP", output_dim |-> output_dim, input_dim |-> input_dim,
     hidden_dim |-> hidden_dim, num_layers |-> num_layers, act |-> act,
     out_features |-> output_dim, has_lock |-> FALSE, has_init_parameters |-> FALSE]

\* VisualTransformer3d.__init__(space_size, patch_size, width, layers, heads, mlp_ratio,
\*                              output_dim, act_layer, dropout)
VisualTransformer3dInit(space_size, patch_size, width, layers, heads, output_dim, act, dropout) ==
    LET grid == [i \in 1..3 |-> space_size[i] \div patch_size]
    IN  [kind |-> "VisualTransformer3d", output_dim |-> output_dim, space_size |-> space_size,
         patch_size |-> patch_size, grid_size |-> grid, width |-> width, layers |-> layers,
         heads |-> heads, act |-> act, dropout |-> dropout,
         pos_rows |-> grid[1] * grid[2] * grid[3] + 1,
         out_features |-> output_dim, has_lock |-> FALSE, has_init_parameters |-> FALSE]

\* a FlatTransformer that projects to its own width, not to output_dim
FlatTransformerInitOwnWidth(width, layers, heads, output_dim, act, dropout) ==
    [kind |-> "FlatTransformer", output_dim |-> width, width |-> width,
     layers |-> layers, heads |-> heads, act |-> act, dropout |-> dropout,
     out_features |-> width, has_lock |-> FALSE, has_init_parameters |-> FALSE]

\* FlatTransformer.__init__(width, layers, heads, mlp_ratio, output_dim, act_layer, dropout)
FlatTransformerInit(width, layers, heads, output_dim, act, dropout) ==
    [kind |-> "FlatTransformer", output_dim |-> output_dim, width |-> width,
     layers |-> layers, heads |-> heads, act |-> act, dropout |-> dropout,
     out_features |-> output_dim, has_lock |-> FALSE, has_init_parameters |-> FALSE]

\* Voxel2DVisualTransformer.__init__(image_size, channel_dim, ...): a VisualTransformer
\* with self.channel_dim and self.image_size (the int) set afterwards
Voxel2DVisualTransformerInit(image_size, patch_size, width, layers, heads, output_dim, act, input_channels, channel_dim, dropout) ==
    [VisualTransformerInit(image_size, patch_size, width, layers, heads, output_dim, act,
                           input_channels, dropout)
       EXCEPT !.kind = "Voxel2DVisualTransformer", !.has_lock = TRUE]
    @@ [channel_dim |-> channel_dim]

\* an exception: its type and its message, split where a field name or value is inserted
Error(type, msg) == [type |-> type, msg |-> msg]

\* an assertion that fails without naming the sub-configuration it wants
RequiredUnnamed(field, suffix) == Error("AssertionError", <<suffix>>)

\* the failure of `assert voxel_cfg.<field> is not None, "<field> is required for ..."`
Required(field, suffix) == Error("AssertionError", <<field, suffix>>)

\* a rejection that does not say which value it rejected
InvalidVoxelTypeUnnamed(voxel_type) == Error("ValueError", <<"Invalid voxel type">>)

\* raise ValueError("Invalid voxel type: {}".format(voxel_type))
InvalidVoxelType(voxel_type) == Error("ValueError", <<"Invalid voxel type: ", voxel_type>>)

\* the outcome of the voxel-type branch of VoxelCLIP.__init__: the encoder assigned to
\* self.voxel_encoder, or the exception raised before anything is assigned
BuildVoxelEncoder(embed_dim, voxel_cfg, voxel_type, act) ==
    LET fail(e) == [status |-> "error", error |-> e, encoder |-> NoModule]
        ok(enc) == [status |-> "ok", error |-> NoError, encoder |-> enc]
    IN  CASE voxel_type = "mlp" ->
               IF ~voxel_cfg.config_mlp.present
               THEN fail(Required("config_mlp", " is required for voxel_type=flat"))
               ELSE ok(MLPInit(voxel_cfg.config_mlp.voxel_dim, embed_dim,
                               voxel_cfg.config_mlp.layer_width,
                               voxel_cfg.config_mlp.layers, act))
          [] voxel_type = "3d-conv" ->
               IF ~voxel_cfg.config_3d_conv.present
               THEN fail(Required("config_3d_conv", " is required for voxel_type=3d"))
               ELSE ok(NewVoxel3dConvEncoderInit("NewVoxel3dConvEncoder",
                         voxel_cfg.config_3d_conv.dims, 64, embed_dim, 1, FALSE, act))
          [] voxel_type = "embedding-3d-conv" ->
               IF ~voxel_cfg.config_3d_conv.present
               THEN fail(Required("config_3d_conv", " is required for voxel_type=3d"))
               ELSE ok(NewVoxel3dConvEncoderInit("EmbeddingVoxel3dConvEncoder",
                         voxel_cfg.config_3d_conv.dims, 64, embed_dim, 64, FALSE, act)
                       @@ [vocab_size |-> voxel_cfg.config_3d_conv.vocab_size])
          [] voxel_type = "3d-vision-transformer" ->
               IF ~voxel_cfg.config_2d_visual_transformer.present
               THEN fail(Required("config_2d_visual_transformer",
                                  " is required for voxel_type=3d"))
               ELSE LET c == voxel_cfg.config_2d_visual_transformer
                    IN  ok(Voxel2DVisualTransformerInit(c.image_size, c.patch_size, c.width,
                             c.layers, c.width \div c.head_width, embed_dim, act,
                             c.channels, c.channel_dim, 20))
          [] voxel_type = "3d-transformer" ->
               IF ~voxel_cfg.config_3d_transformer.present
               THEN fail(Required("config_3d_transformer", " is required for voxel_type=3d"))
               ELSE ok(VisualTransformer3dInit(<<42, 46, 61>>, 8, 1408, 14, 8, embed_dim, act, 40))
          [] voxel_type = "flat-transformer" ->
               ok(FlatTransformerInit(512, 4, 8, embed_dim, act, 40))
          [] OTHER ->
               fail(InvalidVoxelType(voxel_type))


(***************************************************************************)
(* The dual-tower models: construction and parameter initialisation.       *)
(***************************************************************************)
\* np.log(1 / 0.07), the value logit_scale is created with and reset to
LogitScaleInit == "log(1/0.07)"

\* the text tower CLIP.__init__ builds from text_cfg: transformer, token_embedding,
\* positional_embedding, ln_final, text_projection
TextTowerInit(embed_dim, text_cfg, act) ==
    [kind |-> "TextTransformer", output_dim |-> embed_dim, width |-> text_cfg.width,
     layers |-> text_cfg.layers, heads |-> text_cfg.heads, act |-> act, dropout |-> 0,
     context_length |-> text_cfg.context_length, vocab_size |-> text_cfg.vocab_size,
     out_features |-> embed_dim, has_lock |-> FALSE, has_init_parameters |-> FALSE]

\* the modules of a constructed model, in the order model.apply visits them
ModelMods(c, v, sec) ==
    IF c = "CLIP"
    THEN EncoderMods(<<"visual">>, v)
         \o TransformerMods(<<"transformer">>, sec.layers, sec.act, sec.dropout)
         \o <<Mod(<<"token_embedding">>, "Embedding", {"weight"}, {}),
              Mod(<<"ln_final">>, "LayerNorm", {"weight", "bias"}, {}),
              Mod(<<>>, "CLIP", {"positional_embedding", "text_projection", "logit_scale"},
                  {"visual", "transformer", "token_embedding", "ln_final"})>>
    ELSE EncoderMods(<<"visual">>, v)
         \o EncoderMods(<<"voxel_encoder">>, sec)
         \o <<Mod(<<>>, "VoxelCLIP", {"logit_scale"}, {"visual", "voxel_encoder"})>>

\* getattr(module at path, name) resolves to a parameter, to a child module, or fails
AttrKind(mods, path, name) ==
    IF \E i \in DOMAIN mods : mods[i].path = path /\ name \in mods[i].params THEN "param"
    ELSE IF \E i \in DOMAIN mods : mods[i].path = path /\ name \in mods[i].kids THEN "module"
    ELSE "missing"

\* ModifiedResNet.init_parameters: the parameters it re-initialises
ModifiedResNetInitParameters(p, v) ==
    {p \o <<"attnpool", n, "weight">> : n \in {"q_proj", "k_proj", "v_proj", "c_proj"}}
    \cup {q \in ParamsOf(Flatten([s \in 1..4 |->
                Flatten([i \in 1..Len(v.stages[s]) |->
                    BottleneckMods(p \o <<LayerName(s), IdxStr(i - 1)>>, v.stages[s][i])])])) :
            Len(q) >= 2 /\ q[Len(q) - 1] = "bn3" /\ q[Len(q)] = "weight"}

\* hasattr(self.visual, 'init_parameters') and the call it guards
VisualInitParameters(v) ==
    IF v.has_init_parameters THEN ModifiedResNetInitParameters(<<"visual">>, v) ELSE {}

\* one pass of the loop `for block in self.transformer.resblocks` for the block at path b:
\* the four nn.init.normal_ calls, the last two after an attribute lookup on block.mlp
InitTextBlock(mods, b, done) ==
    IF AttrKind(mods, b \o <<"mlp">>, "c_fc") # "module"
    THEN [status |-> "error", reinit |-> done,
          error |-> Error("AttributeError", <<"'Sequential' object has no attribute ", "c_fc">>)]
    ELSE IF AttrKind(mods, b \o <<"mlp">>, "c_proj") # "module"
    THEN [status |-> "error", reinit |-> done \cup {b \o <<"mlp", "c_fc", "weight">>},
          error |-> Error("AttributeError", <<"'Sequential' object has no attribute ", "c_proj">>)]
    ELSE [status |-> "ok", error |-> NoError,
          reinit |-> done \cup {b \o <<"mlp", "c_fc", "weight">>,
                                b \o <<"mlp", "c_proj", "weight">>}]

RECURSIVE InitTextBlocks(_, _, _, _)
\* the loop `for block in self.transformer.resblocks` of CLIP.init_parameters from block i:
\* the parameters re-initialised before the loop ends or an attribute lookup fails
InitTextBlocks(mods, i, layers, r) ==
    IF i > layers \/ r.status = "error" THEN r
    ELSE InitTextBlocks(mods, i + 1, layers,
            InitTextBlock(mods, <<"transformer", "resblocks", IdxStr(i - 1)>>,
                          r.reinit \cup {<<"transformer", "resblocks", IdxStr(i - 1),
                                           "attn", "in_proj_weight">>,
                                         <<"transformer", "resblocks", IdxStr(i - 1),
                                           "attn", "out_proj", "weight">>}))

\* an init_parameters result
InitResult(status, error, reinit) ==
    [status |-> status, error |-> error, reinit |-> reinit, logit_scale |-> LogitScaleInit]

\* the end of CLIP.init_parameters: text_projection, unless the loop over the blocks raised
CLIPInitParametersEnd(blocks) ==
    IF blocks.status = "error" THEN InitResult("error", blocks.error, blocks.reinit)
    ELSE InitResult("ok", NoError, blocks.reinit \cup {<<"text_projection">>})

\* CLIP.init_parameters
CLIPInitParameters(v, sec) ==
    CLIPInitParametersEnd(
        InitTextBlocks(ModelMods("CLIP", v, sec), 1, sec.layers,
            [status |-> "ok", error |-> NoError,
             reinit |-> {<<"token_embedding", "weight">>, <<"positional_embedding">>,
                         <<"logit_scale">>} \cup VisualInitParameters(v)]))

\* the branch on self.voxel_type of VoxelCLIP.init_parameters, after logit_scale and the
\* visual tower (first) have been initialised
VoxelInitBranch(sec, voxel_type, first) ==
    CASE voxel_type = "flat" ->
           IF sec.kind # "MLP"
           THEN InitResult("error",
                           Error("AttributeError", <<"object has no attribute ", "layers">>),
                           first)
           ELSE InitResult("ok", NoError,
                  first \cup {<<"voxel_encoder", "layers", n, w>> :
                                 n \in {"input", "output"}
                                       \cup {MLPName("fc", i - 1) : i \in 1..(sec.num_layers - 1)},
                                 w \in {"weight", "bias"}})
      [] voxel_type = "3d-flat" ->
           InitResult("error",
                      Error("NotImplementedError",
                            <<"3D flat voxel encoder initializer not implemented">>),
                      first)
      [] OTHER -> InitResult("ok", NoError, first)

\* VoxelCLIP.init_parameters
VoxelCLIPInitParameters(v, sec, voxel_type) ==
    VoxelInitBranch(sec, voxel_type, {<<"logit_scale">>} \cup VisualInitParameters(v))

\* torch.empty(L, L).fill_(float("-inf"))
FilledMask(L) == [i \in 1..L |-> [j \in 1..L |-> "-inf"]]

\* Tensor.triu_(diagonal): keep the entries with j - i >= diagonal, zero the others
Triu(m, diagonal) ==
    [i \in DOMAIN m |-> [j \in DOMAIN m[i] |-> IF j - i >= diagonal THEN m[i][j] ELSE "0"]]

\* a mask that also hides each position from itself
BuildAttentionMaskStrict(context_length) == Triu(FilledMask(context_length), 0)

\* CLIP.build_attention_mask
BuildAttentionMask(context_length) == Triu(FilledMask(context_length), 1)

\* the state of a model whose __init__ raised: nothing is returned to the caller
FailedInit(e, builtSoFar, reinit) ==
    [status |-> "error", error |-> e, built |-> builtSoFar, visual |-> NoModule,
     secondary |-> NoModule, logit_scale |-> "unset", attn_mask |-> <<>>, reinit |-> reinit]

\* the end of CLIP.__init__: self.init_parameters() on the towers just built
CLIPInitEnd(v, sec, mask, ip) ==
    IF ip.status = "error"
    THEN FailedInit(ip.error,
                    <<"visual", "transformer", "token_embedding", "positional_embedding",
                      "ln_final", "text_projection", "logit_scale", "attn_mask">>, ip.reinit)
    ELSE [status |-> "ok", error |-> NoError,
          built |-> <<"visual", "transformer", "token_embedding", "positional_embedding",
                      "ln_final", "text_projection", "logit_scale", "attn_mask">>,
          visual |-> v, secondary |-> sec, logit_scale |-> ip.logit_scale,
          attn_mask |-> mask, reinit |-> ip.reinit]

\* CLIP.__init__ once self.visual (v) and the text tower (sec) are built
CLIPInitTowers(v, sec, context_length) ==
    CLIPInitEnd(v, sec, BuildAttentionMask(context_length), CLIPInitParameters(v, sec))

\* CLIP.__init__(embed_dim, vision_cfg, text_cfg, quick_gelu)
CLIPInit(a) ==
    CLIPInitTowers(BuildVisual(a.embed_dim, a.vision_cfg, a.quick_gelu),
                   TextTowerInit(a.embed_dim, a.text_cfg,
                                 ActAfterVisual(a.vision_cfg, a.quick_gelu)),
                   a.text_cfg.context_length)

\* the end of VoxelCLIP.__init__: logit_scale and self.init_parameters()
VoxelCLIPInitEnd(v, sec, ip) ==
    IF ip.status = "error"
    THEN FailedInit(ip.error, <<"visual", "voxel_encoder", "logit_scale">>, ip.reinit)
    ELSE [status |-> "ok", error |-> NoError,
          built |-> <<"visual", "voxel_encoder", "logit_scale">>, visual |-> v,
          secondary |-> sec, logit_scale |-> ip.logit_scale,
          attn_mask |-> <<>>, reinit |-> ip.reinit]

\* VoxelCLIP.__init__ once self.visual (v) is built and the voxel branch has run (enc)
VoxelCLIPInitTowers(v, enc, voxel_type) ==
    IF enc.status = "error" THEN FailedInit(enc.error, <<"visual">>, {})
    ELSE VoxelCLIPInitEnd(v, enc.encoder, VoxelCLIPInitParameters(v, enc.encoder, voxel_type))

\* VoxelCLIP.__init__(embed_dim, vision_cfg, voxel_cfg, quick_gelu, voxel_type)
VoxelCLIPInit(a) ==
    VoxelCLIPInitTowers(BuildVisual(a.embed_dim, a.vision_cfg, a.quick_gelu),
                        BuildVoxelEncoder(a.embed_dim, a.voxel_cfg, a.voxel_type,
                                          ActAfterVisual(a.vision_cfg, a.quick_gelu)),
                        a.voxel_type)

(***************************************************************************)
(* Encoding and forward.  An embedding is [vec, den2]: the vector vec       *)
(* divided by sqrt(den2); an encoder's raw output has den2 = 1.            *)
(***************************************************************************)
\* the output of a tower on input x: one row of e.out_features values
\* (salt tells the towers apart; the values stand for what the runtime computes)
TowerOutput(e, salt, x) ==
    [vec |-> [i \in 1..e.out_features |-> salt * x + i], den2 |-> 1]

SumSq(vec) ==
    LET RECURSIVE S(_)
        S(i) == IF i = 0 THEN 0 ELSE vec[i] * vec[i] + S(i - 1)
    IN  S(Len(vec))

\* F.normalize(t, dim=-1): t / max(||t||_2, eps) for a raw tensor t
Normalize(t) ==
    IF SumSq(t.vec) = 0 THEN t
    ELSE [vec |-> t.vec, den2 |-> t.den2 * SumSq(t.vec)]

\* ||t||_2 = 1
UnitNorm(t) == SumSq(t.vec) = t.den2

\* self.logit_scale.exp()
Exp(x) == [f |-> "exp", of |-> x]

NoScale == [f |-> "none", of |-> "none"]

\* the outcome of a call: what it returned (kind, out, scale) or raised (error), and the
\* encode_* methods and towers it invoked (calls)
Returned(kind, out, scale, calls) ==
    [status |-> "ok", kind |-> kind, out |-> out, scale |-> scale, calls |-> calls,
     error |-> NoError]

Raised(e, calls) ==
    [status |-> "error", kind |-> "none", out |-> <<>>, scale |-> NoScale, calls |-> calls,
     error |-> e]

\* an encoder applied to an input: nn.Module.__call__ on None fails in the first layer
TowerForward(e, salt, x, name) ==
    IF x = None
    THEN Raised(Error("TypeError", <<name, " got NoneType, expected Tensor">>), <<name>>)
    ELSE Returned("single", <<TowerOutput(e, salt, x)>>, NoScale, <<name>>)

\* the record of a method call: the method's name before what it invoked
Via(method, r) == [r EXCEPT !.calls = <<method>> \o r.calls]

\* CLIP.encode_image / VoxelCLIP.encode_image
EncodeImage(image) == Via("encode_image", TowerForward(visual, 1, image, "visual"))

\* CLIP.encode_text: token_embedding, positional_embedding, transformer, ln_final,
\* text_projection
EncodeText(text) == Via("encode_text", TowerForward(secondary, 2, text, "token_embedding"))

\* VoxelCLIP.encode_voxel
EncodeVoxel(voxel) == Via("encode_voxel", TowerForward(secondary, 2, voxel, "voxel_encoder"))

\* a tail of forward that normalizes the image features only and hands out the raw
\* logit_scale
ForwardBothRaw(i, t) ==
    IF i.status = "error" THEN i
    ELSE IF t.status = "error" THEN [t EXCEPT !.calls = i.calls \o t.calls]
    ELSE Returned("triple", <<Normalize(i.out[1]), t.out[1]>>,
                  [f |-> "none", of |-> logit_scale], i.calls \o t.calls)

\* the tail of forward when both inputs are given: encode, normalize, attach the scale
ForwardBoth(i, t) ==
    IF i.status = "error" THEN i
    ELSE IF t.status = "error" THEN [t EXCEPT !.calls = i.calls \o t.calls]
    ELSE Returned("triple", <<Normalize(i.out[1]), Normalize(t.out[1])>>,
                  Exp(logit_scale), i.calls \o t.calls)

\* a forward that answers two absent inputs with an empty result
CLIPForwardLenient(image, text) ==
    IF image = None /\ text = None THEN Returned("none", <<>>, NoScale, <<>>)
    ELSE IF image = None THEN EncodeText(text)
    ELSE IF text = None THEN EncodeImage(image)
    ELSE ForwardBoth(EncodeImage(image), EncodeText(text))

\* CLIP.forward(image, text)
CLIPForward(image, text) ==
    IF image = None THEN EncodeText(text)
    ELSE IF text = None THEN EncodeImage(image)
    ELSE ForwardBoth(EncodeImage(image), EncodeText(text))

\* a forward that normalizes the image features when the image comes alone
VoxelCLIPForwardNormalized(image, text) ==
    IF image = None
    THEN Raised(Error("AttributeError",
                      <<"'VoxelCLIP' object has no attribute ", "encode_text">>), <<>>)
    ELSE IF text = None
    THEN [EncodeImage(image) EXCEPT !.out = <<Normalize(EncodeImage(image).out[1])>>]
    ELSE ForwardBoth(EncodeImage(image), EncodeVoxel(text))

\* VoxelCLIP.forward(image, text): the image-is-None branch calls self.encode_text,
\* a method VoxelCLIP does not define
VoxelCLIPForward(image, text) ==
    IF image = None
    THEN Raised(Error("AttributeError",
                      <<"'VoxelCLIP' object has no attribute ", "encode_text">>), <<>>)
    ELSE IF text = None THEN EncodeImage(image)
    ELSE ForwardBoth(EncodeImage(image), EncodeVoxel(text))

(***************************************************************************)
(* Locking, gradient checkpointing, fp16 conversion.                       *)
(***************************************************************************)
\* self.visual.parameters(): the parameters of the modules under 'visual'
VisualParams(mods) ==
    UNION {{mods[i].path \o <<n>> : n \in mods[i].params} :
             i \in {j \in DOMAIN mods : Len(mods[j].path) >= 1 /\ mods[j].path[1] = "visual"}}

\* a lock that freezes first and checks unlocked_groups afterwards
LockAllThenAssert(v, unlocked_groups, bn) ==
    IF unlocked_groups # 0
    THEN [status |-> "error", freeze |-> VisualParams(modules), bn |-> FALSE,
          error |-> Error("AssertionError",
                          <<"partial locking not currently supported for this model">>)]
    ELSE [status |-> "ok", freeze |-> VisualParams(modules), bn |-> bn,
          error |-> NoError]

\* `assert unlocked_groups == 0, ...` followed by the loop over self.parameters()
LockAll(v, unlocked_groups, bn) ==
    IF unlocked_groups # 0
    THEN [status |-> "error", freeze |-> {}, bn |-> FALSE,
          error |-> Error("AssertionError",
                          <<"partial locking not currently supported for this model">>)]
    ELSE [status |-> "ok", freeze |-> VisualParams(modules), bn |-> bn,
          error |-> NoError]

\* ModifiedResNet.lock(unlocked_groups, freeze_bn_stats)
ModifiedResNetLock(v, unlocked_groups, freeze_bn_stats) ==
    LockAll(v, unlocked_groups, freeze_bn_stats)

\* VisualTransformer.lock(unlocked_groups, freeze_bn_stats)
VisualTransformerLock(v, unlocked_groups, freeze_bn_stats) ==
    LockAll(v, unlocked_groups, FALSE)

\* TimmModel.lock(unlocked_groups, freeze_bn_stats): a freeze request that fails when a
\* partial unlock is asked for
TimmModelLock(v, unlocked_groups, freeze_bn_stats) ==
    LockAll(v, unlocked_groups, freeze_bn_stats)

\* CLIP.lock_image_tower / VoxelCLIP.lock_image_tower: self.visual.lock(...)
LockImageTower(v, unlocked_groups, freeze_bn_stats) ==
    CASE v.kind = "ModifiedResNet" -> ModifiedResNetLock(v, unlocked_groups, freeze_bn_stats)
      [] v.kind = "VisualTransformer" -> VisualTransformerLock(v, unlocked_groups, freeze_bn_stats)
      [] v.kind = "TimmModel" -> TimmModelLock(v, unlocked_groups, freeze_bn_stats)

\* CLIP.set_grad_checkpointing(enable): the new flags
SetGradCheckpointing(v, flags, enable) ==
    [visual |-> IF v.kind = "ModifiedResNet" THEN flags.visual ELSE enable,
     text   |-> enable]

\* the values of the attribute l.<name> that have a .data to convert
ProjNames == <<"text_projection", "proj">>

\* _convert_weights_to_fp16(l): the parameters of module l cast to half, or the
\* exception raised by attr.data when l.proj is a module
ConvertModule(m) ==
    LET byType == IF m.type \in {"Conv1d", "Conv2d", "Linear"}
                  THEN {m.path \o <<n>> : n \in m.params \cap {"weight", "bias"}}
                  ELSE IF m.type = "MultiheadAttention"
                  THEN {m.path \o <<n>> : n \in m.params \cap
                          {"in_proj_weight", "q_proj_weight", "k_proj_weight",
                           "v_proj_weight", "in_proj_bias", "bias_k", "bias_v"}}
                  ELSE {}
        named(k) == IF ProjNames[k] \in m.params THEN {m.path \o <<ProjNames[k]>>} ELSE {}
    IN  IF "text_projection" \in m.kids
        THEN [status |-> "error", half |-> byType,
              error |-> Error("AttributeError", <<m.type, " object has no attribute ", "data">>)]
        ELSE IF "proj" \in m.kids
        THEN [status |-> "error", half |-> byType \cup named(1),
              error |-> Error("AttributeError", <<m.type, " object has no attribute ", "data">>)]
        ELSE [status |-> "ok", half |-> byType \cup named(1) \cup named(2), error |-> NoError]

\* the index of the first module at which _convert_weights_to_fp16 raises; 0 if none
FirstFailing(mods) ==
    IF \A i \in DOMAIN mods : ConvertModule(mods[i]).status = "ok" THEN 0
    ELSE CHOOSE i \in DOMAIN mods :
            /\ ConvertModule(mods[i]).status = "error"
            /\ \A j \in 1..(i - 1) : ConvertModule(mods[j]).status = "ok"

\* model.apply(_convert_weights_to_fp16) when the first module to raise is mods[stop]
ConvertUpTo(mods, already, stop) ==
    IF stop = 0
    THEN [status |-> "ok", error |-> NoError,
          half |-> already \cup UNION {ConvertModule(mods[i]).half : i \in DOMAIN mods}]
    ELSE [status |-> "error", error |-> ConvertModule(mods[stop]).error,
          half |-> already \cup UNION {ConvertModule(mods[i]).half : i \in 1..stop}]

\* convert_weights_to_fp16(model)
ConvertWeightsToFp16(mods, already) == ConvertUpTo(mods, already, FirstFailing(mods))

(***************************************************************************)
(* The state machine of one model object.                                  *)
(***************************************************************************)
VisionCfgs ==
    {[timm_model_name |-> "resnet50", layers_kind |-> "int", layers |-> <<12>>, width |-> 768,
      head_width |-> 64, patch_size |-> 16, image_size |-> 224],
     [timm_model_name |-> "", layers_kind |-> "tuple", layers |-> <<1, 2, 1, 1>>, width |-> 64,
      head_width |-> 64, patch_size |-> 16, image_size |-> 64]}
    \cup {[timm_model_name |-> "", layers_kind |-> "int", layers |-> <<n>>, width |-> 64,
           head_width |-> 32, patch_size |-> 16, image_size |-> 32] : n \in 0..MaxVisionLayers}

TextCfgs ==
    {[context_length |-> L, vocab_size |-> 8, width |-> 64, heads |-> 1, layers |-> n] :
        L \in 1..MaxCtx, n \in 0..MaxTextLayers}

SubCfgNames ==
    {"config_mlp", "config_2d_visual_transformer", "config_3d_conv", "config_3d_transformer"}

\* CLIPVoxelCfg with exactly the sub-configs in `present` populated
VoxelCfg(present) ==
    [config_mlp |-> [present |-> "config_mlp" \in present, voxel_dim |-> 8,
                     layers |-> 2, layer_width |-> 4],
     config_2d_visual_transformer |->
        [present |-> "config_2d_visual_transformer" \in present, channel_dim |-> 2,
         channels |-> 4, image_size |-> 6, layers |-> 1, width |-> 8, head_width |-> 4,
         patch_size |-> 3],
     config_3d_conv |-> [present |-> "config_3d_conv" \in present, dims |-> <<16, 16, 16>>,
                         layers |-> 1, vocab_size |-> 4],
     config_3d_transformer |-> [present |-> "config_3d_transformer" \in present,
                                width |-> 768, layers |-> 12, heads |-> 8]]

VoxelCfgs == {VoxelCfg(P) : P \in {{}, SubCfgNames} \cup {{n} : n \in SubCfgNames}}

\* the values passed as voxel_type; "flat" is the declared default
VoxelTypes ==
    {"mlp", "3d-conv", "embedding-3d-conv", "3d-vision-transformer", "3d-transformer",
     "flat-transformer", "flat", "3d-flat"}

NoTextCfg == [context_length |-> 0, vocab_size |-> 0, width |-> 0, heads |-> 0, layers |-> 0]

CLIPArgs ==
    {[embed_dim |-> d, vision_cfg |-> vc, text_cfg |-> tc, quick_gelu |-> q,
      voxel_cfg |-> VoxelCfg({}), voxel_type |-> "none"] :
        d \in 1..MaxEmbedDim, vc \in VisionCfgs, tc \in TextCfgs, q \in {TRUE}}

VoxelCLIPArgs ==
    {[embed_dim |-> d, vision_cfg |-> vc, text_cfg |-> NoTextCfg, quick_gelu |-> q,
      voxel_cfg |-> xc, voxel_type |-> vt] :
        d \in 1..MaxEmbedDim, vc \in VisionCfgs, xc \in VoxelCfgs, q \in {FALSE},
        vt \in VoxelTypes}

\* no checkpoint, no input, nothing called on them
NoStateDict == <<>>

NoInput == <<>>

NoOutput == [op |-> "none", status |-> "none"]

CallsIdle == state_dict = NoStateDict /\ input = NoInput /\ result = NoOutput

\* no Bottleneck.forward has run yet
NoBlockCall ==
    [status |-> "none", steps |-> <<>>, identity |-> Tensor(0, 0, <<"none">>),
     main |-> Tensor(0, 0, <<"none">>), out |-> Tensor(0, 0, <<"none">>), error |-> NoError,
     x |-> Tensor(0, 0, <<"none">>)]

Call(op, image, text, arg, reinit, r) ==
    r @@ [op |-> op, image |-> image, text |-> text, arg |-> arg, reinit |-> reinit]

NoRet == Call("none", None, None, <<>>, {}, Raised(NoError, <<>>))

Init ==
    /\ cls \in {"CLIP", "VoxelCLIP"}
    /\ args \in (IF cls = "CLIP" THEN CLIPArgs ELSE VoxelCLIPArgs)
    /\ pc = "new"
    /\ err = NoError
    /\ built = <<>>
    /\ modules = <<>>
    /\ visual = NoModule
    /\ secondary = NoModule
    /\ logit_scale = "unset"
    /\ attn_mask = <<>>
    /\ frozen = {}
    /\ half = {}
    /\ bn_frozen = FALSE
    /\ grad_checkpointing = [visual |-> FALSE, text |-> FALSE]
    /\ ret = NoRet
    /\ blk = BottleneckInit(Expansion, 1, 1)
    /\ bret = NoBlockCall
    /\ CallsIdle

\* no model object and no block: the state in which the functions that take their
\* arguments explicitly are called
ModelIdle ==
    /\ cls = "CLIP"
    /\ args = CHOOSE a \in CLIPArgs : TRUE
    /\ pc = "new"
    /\ err = NoError
    /\ built = <<>>
    /\ modules = <<>>
    /\ secondary = NoModule
    /\ logit_scale = "unset"
    /\ attn_mask = <<>>
    /\ frozen = {}
    /\ half = {}
    /\ bn_frozen = FALSE
    /\ grad_checkpointing = [visual |-> FALSE, text |-> FALSE]
    /\ ret = NoRet
    /\ blk = BottleneckInit(Expansion, 1, 1)
    /\ bret = NoBlockCall

\* the variables ModelIdle fixes
idleVars == <<cls, args, pc, err, built, modules, secondary, logit_scale, attn_mask,
              frozen, half, bn_frozen, grad_checkpointing, ret, blk, bret>>

\* what a call that returns nothing leaves in ret
Outcome(op, arg, r, reinit) ==
    Call(op, None, None, arg, reinit,
         IF r.status = "ok" THEN Returned("none", <<>>, NoScale, <<>>)
         ELSE Raised(r.error, <<>>))

\* the state a constructor outcome r leaves
Constructed(r) ==
    /\ pc' = IF r.status = "ok" THEN "ready" ELSE "failed"
    /\ err' = r.error
    /\ built' = r.built
    /\ modules' = IF r.status = "ok" THEN ModelMods(cls, r.visual, r.secondary) ELSE <<>>
    /\ visual' = r.visual
    /\ secondary' = r.secondary
    /\ logit_scale' = r.logit_scale
    /\ attn_mask' = r.attn_mask
    /\ ret' = Outcome("__init__", <<>>, r, r.reinit)

\* the constructor runs to its end or to the exception it raises
Construct ==
    /\ pc = "new"
    /\ Constructed(IF cls = "CLIP" THEN CLIPInit(args) ELSE VoxelCLIPInit(args))
    /\ UNCHANGED <<cls, args, frozen, half, bn_frozen, grad_checkpointing, blk, bret, callVars>>

\* model(image, text)
Forward ==
    /\ pc = "ready"
    /\ \E image \in {None} \cup Inputs, text \in {None} \cup Inputs :
          ret' = Call("forward", image, text, <<>>, {},
                      IF cls = "CLIP" THEN CLIPForward(image, text)
                      ELSE VoxelCLIPForward(image, text))
    /\ UNCHANGED <<cls, args, pc, err, built, modules, visual, secondary, logit_scale, attn_mask,
                   frozen, half, bn_frozen, grad_checkpointing, blk, bret, callVars>>

\* model.encode_image(image)
CallEncodeImage ==
    /\ pc = "ready"
    /\ \E image \in Inputs :
          ret' = Call("encode_image", image, None, <<>>, {}, EncodeImage(image))
    /\ UNCHANGED <<cls, args, pc, err, built, modules, visual, secondary, logit_scale, attn_mask,
                   frozen, half, bn_frozen, grad_checkpointing, blk, bret, callVars>>

\* model.encode_text(text) on a CLIP, model.encode_voxel(voxel) on a VoxelCLIP
CallEncodeSecondary ==
    /\ pc = "ready"
    /\ \E x \in Inputs :
          ret' = IF cls = "CLIP"
                 THEN Call("encode_text", None, x, <<>>, {}, EncodeText(x))
                 ELSE Call("encode_voxel", None, x, <<>>, {}, EncodeVoxel(x))
    /\ UNCHANGED <<cls, args, pc, err, built, modules, visual, secondary, logit_scale, attn_mask,
                   frozen, half, bn_frozen, grad_checkpointing, blk, bret, callVars>>

\* the state an init_parameters outcome r leaves
Initialised(r) ==
    /\ logit_scale' = r.logit_scale
    /\ ret' = Outcome("init_parameters", <<>>, r, r.reinit)

\* model.init_parameters()
CallInitParameters ==
    /\ pc = "ready"
    /\ Initialised(IF cls = "CLIP" THEN CLIPInitParameters(visual, secondary)
                   ELSE VoxelCLIPInitParameters(visual, secondary, args.voxel_type))
    /\ UNCHANGED <<cls, args, pc, err, built, modules, visual, secondary, attn_mask,
                   frozen, half, bn_frozen, grad_checkpointing, blk, bret, callVars>>

\* the state a lock outcome r leaves
Locked(arg, r) ==
    /\ frozen' = frozen \cup r.freeze
    /\ bn_frozen' = (bn_frozen \/ r.bn)
    /\ ret' = Outcome("lock_image_tower", arg, r, {})

\* model.lock_image_tower(unlocked_groups, freeze_bn_stats)
CallLockImageTower ==
    /\ pc = "ready"
    /\ \E unlocked_groups \in 0..1, freeze_bn_stats \in BOOLEAN :
          Locked(<<unlocked_groups, freeze_bn_stats>>,
                 LockImageTower(visual, unlocked_groups, freeze_bn_stats))
    /\ UNCHANGED <<cls, args, pc, err, built, modules, visual, secondary, logit_scale,
                   attn_mask, half, grad_checkpointing, blk, bret, callVars>>

\* model.set_grad_checkpointing(enable): defined by CLIP only
CallSetGradCheckpointing ==
    /\ pc = "ready"
    /\ \E enable \in BOOLEAN :
          IF cls = "CLIP"
          THEN /\ grad_checkpointing' = SetGradCheckpointing(visual, grad_checkpointing, enable)
               /\ ret' = Call("set_grad_checkpointing", None, None, <<enable>>, {},
                              Returned("none", <<>>, NoScale, <<>>))
          ELSE /\ grad_checkpointing' = grad_checkpointing
               /\ ret' = Call("set_grad_checkpointing", None, None, <<enable>>, {},
                              Raised(Error("AttributeError",
                                           <<"'VoxelCLIP' object has no attribute ",
                                             "set_grad_checkpointing">>), <<>>))
    /\ UNCHANGED <<cls, args, pc, err, built, modules, visual, secondary, logit_scale,
                   attn_mask, frozen, half, bn_frozen, blk, bret, callVars>>

\* the state a conversion outcome r leaves
Converted(r) ==
    /\ half' = r.half
    /\ ret' = Outcome("convert_weights_to_fp16", <<>>, r, {})

\* convert_weights_to_fp16(model)
CallConvertWeightsToFp16 ==
    /\ pc = "ready"
    /\ Converted(ConvertWeightsToFp16(modules, half))
    /\ UNCHANGED <<cls, args, pc, err, built, modules, visual, secondary, logit_scale,
                   attn_mask, frozen, bn_frozen, grad_checkpointing, blk, bret, callVars>>

Next ==
    \/ Construct
    \/ Forward
    \/ CallEncodeImage
    \/ CallEncodeSecondary
    \/ CallInitParameters
    \/ CallLockImageTower
    \/ CallSetGradCheckpointing
    \/ CallConvertWeightsToFp16

Spec == Init /\ [][Next]_vars


(***************************************************************************)
(* The state machine of one residual bottleneck block: built with any      *)
(* (inplanes, planes, stride), then applied to feature maps.               *)
(***************************************************************************)
InitBottleneck ==
    /\ cls = "CLIP"
    /\ args = CHOOSE a \in CLIPArgs : TRUE
    /\ pc = "new"
    /\ err = NoError
    /\ built = <<>>
    /\ modules = <<>>
    /\ visual = NoModule
    /\ secondary = NoModule
    /\ logit_scale = "unset"
    /\ attn_mask = <<>>
    /\ frozen = {}
    /\ half = {}
    /\ bn_frozen = FALSE
    /\ grad_checkpointing = [visual |-> FALSE, text |-> FALSE]
    /\ ret = NoRet
    /\ \E inplanes \in 1..(MaxPlanes * Expansion), planes \in 1..MaxPlanes, stride \in 1..MaxStride :
          blk = BottleneckInit(inplanes, planes, stride)
    /\ bret = NoBlockCall
    /\ CallsIdle

\* block(x) for a feature map x of any channel count and spatial size
CallBottleneck ==
    /\ \E c \in 1..(MaxPlanes * Expansion), hw \in 1..(MaxSpatial * MaxStride) :
          bret' = BottleneckForward(blk, Tensor(c, hw, <<"x">>))
                  @@ [x |-> Tensor(c, hw, <<"x">>)]
    /\ UNCHANGED <<blk, cls, args, pc, err, built, modules, visual, secondary, logit_scale,
                   attn_mask, frozen, half, bn_frozen, grad_checkpointing, ret, callVars>>

NextBottleneck == CallBottleneck

SpecBottleneck == InitBottleneck /\ [][NextBottleneck]_vars


(***************************************************************************)
(* resize_pos_embed(state_dict, model).                                    *)
(***************************************************************************)
MaxRows == 10
MaxWidth == 4
MaxGrid == 3

\* a tensor of the checkpoint: its shape and, row by row, the value it holds
\* (a term: where the row comes from)
Stored(key, rows, width) ==
    [shape |-> <<rows, width>>, data |-> [i \in 1..rows |-> <<"stored", key, i>>]]

PosEmbedKey == "visual.positional_embedding"

\* int(math.sqrt(n))
IntSqrt(n) == CHOOSE r \in 0..n : r * r <= n /\ (r + 1) * (r + 1) > n

\* hasattr(model.visual, 'grid_size')
HasGridSize(v) == "grid_size" \in DOMAIN v

\* the outcome of resize_pos_embed: the state dict it leaves and the exception it raised
Resized(status, sd, e) == [status |-> status, state_dict |-> sd, error |-> e]

\* resize_pos_embed once old_pos_embed is known to differ in length from new_seq_len:
\* split off the class token, reshape the rest to old_grid x old_grid x channels,
\* interpolate to grid, flatten, concatenate, store
ResizeGrid(sd, old, grid, old_grid) ==
    IF old_grid = 0 \/ ((old.shape[1] - 1) * old.shape[2]) % (old_grid * old_grid) # 0
    THEN Resized("error", sd,
                 Error("RuntimeError", <<"reshape: shape is invalid for input of size ",
                                         (old.shape[1] - 1) * old.shape[2]>>))
    ELSE IF ((old.shape[1] - 1) * old.shape[2]) \div (old_grid * old_grid) # old.shape[2]
    THEN Resized("error", sd,
                 Error("RuntimeError", <<"cat: sizes of tensors must match except in dimension 0">>))
    ELSE Resized("ok",
                 [sd EXCEPT ![PosEmbedKey] =
                     [shape |-> <<grid[1] * grid[2] + 1, old.shape[2]>>,
                      data  |-> <<old.data[1]>>
                                \o [i \in 1..(grid[1] * grid[2]) |->
                                      <<"interpolate", <<old_grid, old_grid>>, grid, i>>]]],
                 NoError)

\* resize_pos_embed(state_dict, model) for model.visual = v
ResizePosEmbed(sd, v) ==
    IF PosEmbedKey \notin DOMAIN sd \/ ~HasGridSize(v) THEN Resized("ok", sd, NoError)
    ELSE IF v.grid_size[1] * v.grid_size[2] + 1 = sd[PosEmbedKey].shape[1]
    THEN Resized("ok", sd, NoError)
    ELSE ResizeGrid(sd, sd[PosEmbedKey], v.grid_size, IntSqrt(sd[PosEmbedKey].shape[1] - 1))

\* the checkpoints resize_pos_embed is given: with or without the positional embedding
StateDicts ==
    {[k \in {"visual.proj", "text_projection"} |-> Stored(k, w, 1)] : w \in 1..MaxWidth}
    \cup {[k \in {"visual.proj", "text_projection", PosEmbedKey} |->
             IF k = PosEmbedKey THEN Stored(k, rows, w) ELSE Stored(k, w, 1)] :
            rows \in 2..MaxRows, w \in 1..MaxWidth}

\* the visual towers of the models it is given: patch transformers of every grid, and a
\* ModifiedResNet, which has no grid_size
ResizeTargets ==
    {VisualTransformerInit(16 * g, 16, 64, 1, 2, 1, "GELU", 3, 0) : g \in 1..MaxGrid}
    \cup {ModifiedResNetInit(<<1, 1, 1, 1>>, 1, 2, 64, 64)}

InitResize ==
    /\ ModelIdle
    /\ visual \in ResizeTargets
    /\ state_dict \in StateDicts
    /\ input = NoInput
    /\ result = NoOutput

\* resize_pos_embed(state_dict, model): state_dict is updated in place
CallResizePosEmbed ==
    /\ state_dict' = ResizePosEmbed(state_dict, visual).state_dict
    /\ result' = [op |-> "resize_pos_embed",
                  status |-> ResizePosEmbed(state_dict, visual).status,
                  error |-> ResizePosEmbed(state_dict, visual).error,
                  before |-> state_dict]
    /\ UNCHANGED <<idleVars, visual, input>>

NextResize == CallResizePosEmbed

SpecResize == InitResize /\ [][NextResize]_vars

(***************************************************************************)
(* Construction of the 3D-convolution encoders: the per-layer lists and    *)
(* the convolution blocks built from them.                                 *)
(***************************************************************************)
MaxDropped == 1
MaxConvLayers == 9

ConvEncoderClasses ==
    {"ClassVoxel3dConvEncoder", "NewVoxel3dConvEncoder", "EmbeddingVoxel3dConvEncoder",
     "Voxel3dConvEncoder"}

\* the per-layer lists written in each class: channels (without the input channel),
\* strides, padding, dialation, kernel; Voxel3dConvEncoder has two lists and scalars
ConvEncoderLists(class, width) ==
    IF class = "ClassVoxel3dConvEncoder"
    THEN [channels  |-> <<64, 128, 256, 256, 256, 256, width>>,
          strides   |-> <<1, 1, 1, 2, 1, 2, 2>>,
          padding   |-> <<1, 1, 1, 1, 1, 1, 1>>,
          dialation |-> <<1, 1, 1, 1, 1, 1, 1>>,
          kernel    |-> <<3, 3, 3, 3, 3, 3, 3>>]
    ELSE IF class = "Voxel3dConvEncoder"
    THEN [channels  |-> <<32, 64, 64, 32, 32, 32, 32, 32>>,
          strides   |-> <<1, 1, 2, 1, 1, 1, 2, 1>>,
          padding   |-> <<>>,
          dialation |-> <<>>,
          kernel    |-> <<>>]
    ELSE [channels  |-> <<64, 128, 256, 256, 256, width>>,
          strides   |-> <<1, 1, 1, 2, 2, 2>>,
          padding   |-> <<1, 1, 1, 0, 1, 0>>,
          dialation |-> <<1, 1, 1, 1, 1, 1>>,
          kernel    |-> <<3, 3, 3, 3, 3, 3>>]

\* a list with its last n entries left out
DropLast(list, n) == SubSeq(list, 1, IF Len(list) > n THEN Len(list) - n ELSE 0)

\* the condition of `assert len(self.channels) == len(self.strides) == len(self.padding)
\* == len(self.dialation) == len(self.kernel)`
LengthsAgree(l) ==
    /\ Len(l.channels) = Len(l.strides)
    /\ Len(l.strides) = Len(l.padding)
    /\ Len(l.padding) = Len(l.dialation)
    /\ Len(l.dialation) = Len(l.kernel)

\* the outcome of the part of __init__ that builds self.conv_blocks: the number of
\* convolution blocks _get_conv_layer has built when it ends or raises
ConvBuilt(status, e, n) == [status |-> status, error |-> e, conv_built |-> n]

\* ClassVoxel3dConvEncoder / NewVoxel3dConvEncoder / EmbeddingVoxel3dConvEncoder.__init__:
\* the assertion, then one block per entry of self.channels, indexing the other lists
AssertingConvBlocks(l) ==
    IF ~LengthsAgree(l)
    THEN ConvBuilt("error",
                   Error("AssertionError",
                         <<"Lengths of channels, strides, padding, dialation, and kernel must be the same. Got ",
                           Len(l.channels), Len(l.strides), Len(l.padding), Len(l.dialation),
                           Len(l.kernel)>>), 0)
    ELSE ConvBuilt("ok", NoError, Len(l.channels))

\* Voxel3dConvEncoder.__init__(dims, layers, ...): one block for each i in range(layers),
\* indexing channels[i + 1] and strides[i] with no check of layers against the lists
UncheckedConvBlocks(l, layers) ==
    IF layers > Len(l.channels) \/ layers > Len(l.strides)
    THEN ConvBuilt("error", Error("IndexError", <<"list index out of range">>),
                   IF Len(l.channels) < Len(l.strides) THEN Len(l.channels) ELSE Len(l.strides))
    ELSE ConvBuilt("ok", NoError, layers)

\* the construction of self.conv_blocks in an encoder of class a.class
ConvEncoderBlocks(a) ==
    IF a.class = "Voxel3dConvEncoder" THEN UncheckedConvBlocks(a.lists, a.layers)
    ELSE AssertingConvBlocks(a.lists)

\* the lists as written, and with entries missing at the end of some of them
ListVariants(class) ==
    {[channels  |-> DropLast(ConvEncoderLists(class, 64).channels, d[1]),
      strides   |-> DropLast(ConvEncoderLists(class, 64).strides, d[2]),
      padding   |-> DropLast(ConvEncoderLists(class, 64).padding, d[3]),
      dialation |-> DropLast(ConvEncoderLists(class, 64).dialation, d[4]),
      kernel    |-> DropLast(ConvEncoderLists(class, 64).kernel, d[5])] :
        d \in [1..5 -> 0..MaxDropped]}

ConvEncoderArgs ==
    UNION {{[class |-> c, lists |-> l, layers |-> Len(l.channels)] : l \in ListVariants(c)} :
             c \in ConvEncoderClasses \ {"Voxel3dConvEncoder"}}
    \cup {[class |-> "Voxel3dConvEncoder",
           lists |-> ConvEncoderLists("Voxel3dConvEncoder", 64), layers |-> n] :
            n \in 0..MaxConvLayers}

InitConvEncoder ==
    /\ ModelIdle
    /\ visual = NoModule
    /\ state_dict = NoStateDict
    /\ input \in ConvEncoderArgs
    /\ result = NoOutput

\* <class>(dims, ...) as far as self.conv_blocks
ConstructConvEncoder ==
    /\ result = NoOutput
    /\ result' = [op |-> "conv_encoder_init"] @@ ConvEncoderBlocks(input)
    /\ UNCHANGED <<idleVars, visual, state_dict, input>>

NextConvEncoder == ConstructConvEncoder

SpecConvEncoder == InitConvEncoder /\ [][NextConvEncoder]_vars

(***************************************************************************)
(* build_model_from_openai_state_dict(state_dict).  A checkpoint maps each *)
(* key, the tuple of its dot-separated components, to the tensor's shape.  *)
(***************************************************************************)
\* a rounding of sqrt(n) that truncates
RoundSqrtDown(n) == CHOOSE r \in 0..n : r * r <= n /\ (r + 1) * (r + 1) > n

\* round(n ** 0.5): the integer nearest to the square root (no integer has a square root
\* halfway between two integers)
RoundSqrt(n) == IF n = 0 THEN 0 ELSE CHOOSE r \in 1..n : r * r - r < n /\ n <= r * r + r

\* the shape stored under key k in the state dict of a CLIP with visual tower v and text
\* tower sec whose visual positional embedding has `rows` rows; <<>> where not tracked
CheckpointShape(k, v, sec, rows) ==
    CASE k = <<"visual", "conv1", "weight">> /\ v.kind = "VisualTransformer" ->
            <<v.width, v.input_channels, v.patch_size, v.patch_size>>
      [] k = <<"visual", "positional_embedding">> -> <<rows, v.width>>
      [] k = <<"visual", "attnpool", "positional_embedding">> -> <<rows, v.width * 32>>
      [] k = <<"visual", "layer1", "0", "conv1", "weight">> -> <<v.width, v.width, 1, 1>>
      [] k = <<"text_projection">> -> <<sec.width, sec.output_dim>>
      [] k = <<"positional_embedding">> -> <<sec.context_length, sec.width>>
      [] k = <<"token_embedding", "weight">> -> <<sec.vocab_size, sec.width>>
      [] k = <<"ln_final", "weight">> -> <<sec.width>>
      [] OTHER -> <<>>

\* the keys state_dict.pop removes before loading
PoppedKeys == {<<"input_resolution">>, <<"context_length">>, <<"vocab_size">>}

\* the state dict of a CLIP with visual tower v and a text tower of t blocks, whose
\* visual positional embedding has `rows` rows
Checkpoint(v, t, rows) ==
    [k \in ParamsOf(ModelMods("CLIP", v,
                      TextTowerInit(MaxEmbedDim, [context_length |-> 3, vocab_size |-> 8,
                                                  width |-> 64, heads |-> 1, layers |-> t],
                                    "QuickGELU"))) \cup PoppedKeys |->
        CheckpointShape(k, v,
                        TextTowerInit(MaxEmbedDim, [context_length |-> 3, vocab_size |-> 8,
                                                    width |-> 64, heads |-> 1, layers |-> t],
                                      "QuickGELU"), rows)]

\* the vision half of the inference: vit, and the CLIPVisionCfg passed to CLIP, or the
\* exception raised before it is made
Inferred(status, e, vit, layers_kind, layers, width, patch_size, image_size) ==
    [status |-> status, error |-> e, vit |-> vit,
     vision_cfg |-> [timm_model_name |-> "", layers_kind |-> layers_kind, layers |-> layers,
                     width |-> width, head_width |-> 64, patch_size |-> patch_size,
                     image_size |-> image_size]]

InferVision(sd) ==
    IF <<"visual", "proj">> \in DOMAIN sd
    THEN Inferred("ok", NoError, TRUE, "int",
                  <<Cardinality({k \in DOMAIN sd :
                                    /\ Len(k) >= 3 /\ k[1] = "visual"
                                    /\ k[Len(k) - 1] = "attn" /\ k[Len(k)] = "in_proj_weight"})>>,
                  sd[<<"visual", "conv1", "weight">>][1],
                  sd[<<"visual", "conv1", "weight">>][4],
                  sd[<<"visual", "conv1", "weight">>][4]
                    * RoundSqrt(sd[<<"visual", "positional_embedding">>][1] - 1))
    ELSE IF <<"visual", "layer1", "0", "conv1", "weight">> \notin DOMAIN sd
    THEN Inferred("error", Error("KeyError", <<"visual.layer1.0.conv1.weight">>),
                  FALSE, "tuple", <<>>, 0, None, 0)
    ELSE IF RoundSqrt(sd[<<"visual", "attnpool", "positional_embedding">>][1] - 1)
              * RoundSqrt(sd[<<"visual", "attnpool", "positional_embedding">>][1] - 1) + 1
            # sd[<<"visual", "attnpool", "positional_embedding">>][1]
    THEN Inferred("error", Error("AssertionError", <<>>), FALSE, "tuple", <<>>, 0, None, 0)
    ELSE Inferred("ok", NoError, FALSE, "tuple",
                  [b \in 1..4 |->
                      Cardinality({k[3] : k \in {q \in DOMAIN sd :
                                      Len(q) >= 3 /\ q[1] = "visual" /\ q[2] = LayerName(b)}})],
                  sd[<<"visual", "layer1", "0", "conv1", "weight">>][1], None,
                  RoundSqrt(sd[<<"visual", "attnpool", "positional_embedding">>][1] - 1) * 32)

\* the arguments of the CLIP(...) call: embed_dim, vision_cfg, text_cfg, quick_gelu=True
InferredArgs(sd, vision_cfg) ==
    [embed_dim  |-> sd[<<"text_projection">>][2],
     vision_cfg |-> vision_cfg,
     text_cfg   |-> [context_length |-> sd[<<"positional_embedding">>][1],
                     vocab_size     |-> sd[<<"token_embedding", "weight">>][1],
                     width          |-> sd[<<"ln_final", "weight">>][1],
                     heads          |-> sd[<<"ln_final", "weight">>][1] \div 64,
                     layers         |-> Cardinality({k[3] : k \in {q \in DOMAIN sd :
                                           /\ Len(q) >= 3 /\ q[1] = "transformer"
                                           /\ q[2] = "resblocks"}})],
     quick_gelu |-> TRUE, voxel_cfg |-> VoxelCfg({}), voxel_type |-> "none"]

\* model.load_state_dict(state_dict): strict on the keys and on the shapes
LoadStateDict(mods, v, sd) ==
    IF ParamsOf(mods) # DOMAIN sd
    THEN Error("RuntimeError", <<"Error(s) in loading state_dict: missing or unexpected keys">>)
    ELSE IF \/ /\ v.kind = "VisualTransformer"
               /\ sd[<<"visual", "positional_embedding">>][1] # v.pos_rows
            \/ /\ v.kind = "ModifiedResNet"
               /\ sd[<<"visual", "attnpool", "positional_embedding">>][1] # v.attnpool.rows
    THEN Error("RuntimeError", <<"Error(s) in loading state_dict: size mismatch">>)
    ELSE NoError

\* the outcome of the function: the step it stopped at, what it inferred, the model it
\* built and the state dict it leaves
Built(stage, e, vit, a, model, sd) ==
    [status |-> IF e = NoError THEN "ok" ELSE "error", error |-> e, stage |-> stage,
     vit |-> vit, args |-> a, model |-> model, state_dict |-> sd]

\* the function from the pops on, for the model CLIP(...) returned
BuildModelLoad(sd, vit, a, model, mods) ==
    IF ConvertWeightsToFp16(mods, {}).status = "error"
    THEN Built("convert", ConvertWeightsToFp16(mods, {}).error, vit, a, model, sd)
    ELSE Built("load", LoadStateDict(mods, model.visual, sd), vit, a, model, sd)

\* the function from the CLIP(...) call on
BuildModelConstruct(sd, vit, a, model) ==
    IF model.status = "error" THEN Built("construct", model.error, vit, a, model, sd)
    ELSE BuildModelLoad([k \in DOMAIN sd \ PoppedKeys |-> sd[k]], vit, a, model,
                        ModelMods("CLIP", model.visual, model.secondary))

BuildModelFromOpenaiStateDict(sd) ==
    IF InferVision(sd).status = "error"
    THEN Built("infer", InferVision(sd).error, InferVision(sd).vit, <<>>, <<>>, sd)
    ELSE BuildModelConstruct(sd, InferVision(sd).vit,
                             InferredArgs(sd, InferVision(sd).vision_cfg),
                             CLIPInit(InferredArgs(sd, InferVision(sd).vision_cfg)))

\* the checkpoints the function is given: the state dicts of CLIP models with a patch
\* transformer or a residual network as visual tower, and a positional embedding of any
\* number of rows
InitBuildModel ==
    /\ ModelIdle
    /\ visual = NoModule
    /\ \E t \in 0..MaxTextLayers, rows \in 1..MaxRows :
          \/ \E P \in 1..MaxPatch, n \in 0..MaxVisionLayers :
                state_dict = Checkpoint(VisualTransformerInit(32, P, 64, n, 1, MaxEmbedDim,
                                                              "QuickGELU", 3, 0), t, rows)
          \/ \E a \in 1..(MaxVisionLayers + 1) :
                state_dict = Checkpoint(ModifiedResNetInit(<<a, 1, 2, 1>>, MaxEmbedDim, 32,
                                                           64, 64), t, rows)
    /\ input = NoInput
    /\ result = NoOutput

\* build_model_from_openai_state_dict(state_dict): the pops act on the caller's dict
CallBuildModel ==
    /\ result = NoOutput
    /\ state_dict' = BuildModelFromOpenaiStateDict(state_dict).state_dict
    /\ result' = [op |-> "build_model_from_openai_state_dict", before |-> state_dict]
                 @@ BuildModelFromOpenaiStateDict(state_dict)
    /\ UNCHANGED <<idleVars, visual, input>>

NextBuildModel == CallBuildModel

SpecBuildModel == InitBuildModel /\ [][NextBuildModel]_vars

(***************************************************************************)
(* forward of the transformer encoders, at the level of shapes and of the  *)
(* positions of the sequence.  A tensor is [shape, data].                  *)
(***************************************************************************)
\* the outcome of an encoder's forward: the number of tokens the patchify step made, the
\* positions of the sequence that enters the transformer stack, the position whose
\* final state is pooled, the padding applied first, and the shape and value returned
Forwarded(tokens, positions, pad, shape, value) ==
    [status |-> "ok", error |-> NoError, tokens |-> tokens, positions |-> positions,
     pooled |-> positions[1], pad |-> pad, shape |-> shape, value |-> value]

ForwardFailed(e) ==
    [status |-> "error", error |-> e, tokens |-> 0, positions |-> <<>>, pooled |-> <<>>,
     pad |-> <<>>, shape |-> <<>>, value |-> <<>>]

\* the output size of a convolution with kernel = stride = patch and no padding
PatchCount(size, patch) == (size - patch) \div patch + 1

\* the sequence torch.cat([class_embedding + zeros, x], dim=1) makes of n tokens
WithClassToken(n) == <<<<"class_embedding">>>> \o [i \in 1..n |-> <<"patch", i>>]

\* x + positional_embedding: [B, n, width] + [rows, width] broadcasts when n = rows or one
\* of them is 1
Broadcasts(n, rows) == n = rows \/ n = 1 \/ rows = 1

\* VisualTransformer.forward(x) for x of shape xs = [B, C, H, W]
VisualTransformerForward(v, xs) ==
    IF Len(xs) # 4 \/ xs[2] # v.input_channels
    THEN ForwardFailed(Error("RuntimeError", <<"conv1: expected input with ",
                                               v.input_channels, " channels">>))
    ELSE IF xs[3] < v.patch_size \/ xs[4] < v.patch_size
    THEN ForwardFailed(Error("RuntimeError", <<"conv1: kernel size can't be greater than actual input size">>))
    ELSE IF ~Broadcasts(PatchCount(xs[3], v.patch_size) * PatchCount(xs[4], v.patch_size) + 1,
                        v.pos_rows)
    THEN ForwardFailed(Error("RuntimeError", <<"x + positional_embedding: sizes must match at dimension 1">>))
    ELSE Forwarded(PatchCount(xs[3], v.patch_size) * PatchCount(xs[4], v.patch_size),
                   WithClassToken(PatchCount(xs[3], v.patch_size)
                                  * PatchCount(xs[4], v.patch_size)),
                   <<>>, <<xs[1], v.output_dim>>, <<>>)

\* VisualTransformer3d.forward(x) for x of shape xs = [B, 1, H, W, D]
VisualTransformer3dForward(v, xs) ==
    IF Len(xs) # 5 \/ xs[2] # 1
    THEN ForwardFailed(Error("RuntimeError", <<"conv1: expected input with ", 1, " channels">>))
    ELSE IF \E i \in 3..5 : xs[i] < v.patch_size
    THEN ForwardFailed(Error("RuntimeError", <<"conv1: kernel size can't be greater than actual input size">>))
    ELSE IF ~Broadcasts(PatchCount(xs[3], v.patch_size) * PatchCount(xs[4], v.patch_size)
                          * PatchCount(xs[5], v.patch_size) + 1, v.pos_rows)
    THEN ForwardFailed(Error("RuntimeError", <<"x + position_embedding: sizes must match at dimension 1">>))
    ELSE Forwarded(PatchCount(xs[3], v.patch_size) * PatchCount(xs[4], v.patch_size)
                     * PatchCount(xs[5], v.patch_size),
                   WithClassToken(PatchCount(xs[3], v.patch_size)
                                  * PatchCount(xs[4], v.patch_size)
                                  * PatchCount(xs[5], v.patch_size)),
                   <<>>, <<xs[1], v.output_dim>>, <<>>)

\* a padding that adds the missing rows and columns at the front
PadAmountsFront(image_size, h, w) == <<image_size - w, 0, image_size - h, 0>>

\* the argument of F.pad: (left, right) of the last axis, then of the one before it
PadAmounts(image_size, h, w) == <<0, image_size - w, 0, image_size - h>>

\* Voxel2DVisualTransformer.forward(x) for x of shape xs = [B, c0, c1, c2]: the permuted
\* shape is ps; the padding applied is recorded with the axes order and the padded shape
Voxel2DVisualTransformerForward(v, xs) ==
    LET axes == <<0, v.channel_dim + 1>>
                \o SelectSeq(<<1, 2, 3>>, LAMBDA i : i # v.channel_dim + 1)
        ps == [i \in 1..4 |-> xs[axes[i] + 1]]
        amounts == PadAmounts(v.image_size, ps[3], ps[4])
    IN  IF ps[4] > v.image_size
        THEN ForwardFailed(Error("AssertionError",
                 <<"Last channel dimension ", ps[4], " is larger than image size ",
                   v.image_size>>))
        ELSE IF ps[3] > v.image_size
        THEN ForwardFailed(Error("AssertionError",
                 <<"Second to last channel dimension ", ps[3],
                   " is larger than image size ", v.image_size>>))
        ELSE [VisualTransformerForward(v, <<ps[1], ps[2], ps[3] + amounts[3] + amounts[4],
                                            ps[4] + amounts[1] + amounts[2]>>)
                EXCEPT !.pad = [axes |-> axes, amounts |-> amounts, value |-> 0,
                                shape |-> <<ps[1], ps[2], ps[3] + amounts[3] + amounts[4],
                                            ps[4] + amounts[1] + amounts[2]>>]]

\* a positional encoding computed from the coordinates
GeneratePositionalEncodingOfCoords(x) ==
    [rows  |-> x.shape[1],
     value |-> [s \in DOMAIN x.data |->
                  <<"positional_embedding", x.data[s][2], x.data[s][3], x.data[s][4]>>]]

\* FlatTransformer.generate_positional_encoding(x): p_x, p_y, p_z are read, and the
\* embedding vector is repeated once per row of p_x
GeneratePositionalEncoding(x) ==
    LET p_x == [s \in DOMAIN x.data |-> x.data[s][2]]
        p_y == [s \in DOMAIN x.data |-> x.data[s][3]]
        p_z == [s \in DOMAIN x.data |-> x.data[s][4]]
    IN  [rows  |-> x.shape[1],
         value |-> [s \in DOMAIN x.data |-> <<"positional_embedding">>]]

\* FlatTransformer.forward(x) for x of shape [B, S, 4], x.data[s] = <<t, x, y, z>> being
\* the element at position s of every row of the batch.  e is [B, S, width] and the
\* encoding [B, width]: the sum broadcasts when B = S, B = 1 or S = 1, and in the last
\* case has B positions, all made from the one token
FlatTransformerForward(v, x) ==
    IF Len(x.shape) # 3 \/ x.shape[3] < 4
    THEN ForwardFailed(Error("IndexError", <<"index 3 is out of bounds for dimension -1">>))
    ELSE IF ~Broadcasts(x.shape[2], GeneratePositionalEncoding(x).rows)
    THEN ForwardFailed(Error("RuntimeError", <<"e + positional encoding: sizes must match at dimension 1">>))
    ELSE Forwarded(x.shape[2],
                   [i \in 1..(IF x.shape[2] = 1 THEN x.shape[1] ELSE x.shape[2]) |->
                       <<"token", IF x.shape[2] = 1 THEN 1 ELSE i>>],
                   <<>>, <<x.shape[1], v.output_dim>>,
                   [s \in DOMAIN x.data |->
                       <<"add", <<"conv1", x.data[s][1]>>,
                         GeneratePositionalEncoding(x).value[s]>>])

RECURSIVE ConvForwardDims(_, _, _)
\* the spatial dims after conv blocks n.. of v applied to a map of spatial size dims;
\* <<>> when a kernel is larger than the padded input it is applied to
ConvForwardDims(dims, n, v) ==
    IF n > Len(v.strides) THEN dims
    ELSE IF \E i \in DOMAIN dims :
               dims[i] + 2 * v.padding[n] < v.dialation[n] * (v.kernel[n] - 1) + 1
    THEN <<>>
    ELSE ConvForwardDims([i \in DOMAIN dims |->
                             (dims[i] + 2 * v.padding[n] - v.dialation[n] * (v.kernel[n] - 1) - 1)
                               \div v.strides[n] + 1],
                         n + 1, v)

\* NewVoxel3dConvEncoder.forward(x) for x of shape xs, whose axes are named by `axes`:
\* the conv blocks read axis 1 as the channels and the last three axes as the space
NewVoxel3dConvEncoderForward(v, xs, axes) ==
    IF Len(xs) # 5 \/ xs[2] # v.channels[1]
    THEN [ForwardFailed(Error("RuntimeError", <<"conv_blocks.0: expected input with ",
                                                v.channels[1], " channels">>))
            EXCEPT !.value = [conv_input |-> xs, axes |-> axes]]
    ELSE IF ConvForwardDims(SubSeq(xs, 3, 5), 1, v) = <<>>
    THEN [ForwardFailed(Error("RuntimeError", <<"conv_blocks: kernel size can't be greater than actual input size">>))
            EXCEPT !.value = [conv_input |-> xs, axes |-> axes]]
    ELSE IF /\ ~v.average_output
            /\ v.attention_width * ConvForwardDims(SubSeq(xs, 3, 5), 1, v)[1]
                 * ConvForwardDims(SubSeq(xs, 3, 5), 1, v)[2]
                 * ConvForwardDims(SubSeq(xs, 3, 5), 1, v)[3] # v.proj_in
    THEN [ForwardFailed(Error("RuntimeError", <<"proj: mat1 and mat2 shapes cannot be multiplied">>))
            EXCEPT !.value = [conv_input |-> xs, axes |-> axes]]
    ELSE [Forwarded(ConvForwardDims(SubSeq(xs, 3, 5), 1, v)[1]
                      * ConvForwardDims(SubSeq(xs, 3, 5), 1, v)[2]
                      * ConvForwardDims(SubSeq(xs, 3, 5), 1, v)[3],
                    [i \in 1..(ConvForwardDims(SubSeq(xs, 3, 5), 1, v)[1]
                               * ConvForwardDims(SubSeq(xs, 3, 5), 1, v)[2]
                               * ConvForwardDims(SubSeq(xs, 3, 5), 1, v)[3]) |-> <<"voxel", i>>],
                    <<>>, <<xs[1], v.output_dim>>, [conv_input |-> xs, axes |-> axes])
            EXCEPT !.pooled = IF v.average_output THEN <<"mean">> ELSE <<"flatten">>]

\* EmbeddingVoxel3dConvEncoder.forward(x) for x of shape xs = [N, w, h, d]:
\* token_embedding appends an axis of c_in values, then the parent's forward runs
EmbeddingVoxel3dConvEncoderForward(v, xs) ==
    NewVoxel3dConvEncoderForward(v, xs \o <<v.channels[1]>>, <<"N", "w", "h", "d", "c_in">>)

RECURSIVE BlocksForward(_, _)
\* nn.Sequential of Bottleneck blocks applied to the feature map x
BlocksForward(blocks, x) ==
    IF blocks = <<>> THEN [status |-> "ok", out |-> x, error |-> NoError]
    ELSE LET r == BottleneckForward(Head(blocks), x)
         IN  IF r.status = "error" THEN [status |-> "error", out |-> x, error |-> r.error]
             ELSE BlocksForward(Tail(blocks), Tensor(r.out.c, r.out.hw, <<"block">>))

\* AttentionPool2d.forward on a feature map of c channels and hw x hw positions, for a
\* batch of n: the mean token is prepended, the positional embedding added, and the
\* attention output at position 0 returned
AttentionPool2dForward(a, n, c, hw) ==
    IF ~Broadcasts(hw * hw + 1, a.rows)
    THEN ForwardFailed(Error("RuntimeError", <<"x + positional_embedding: sizes must match at dimension 0">>))
    ELSE IF c # a.embed_dim
    THEN ForwardFailed(Error("RuntimeError", <<"x + positional_embedding: sizes must match at dimension 2">>))
    ELSE IF a.embed_dim % a.num_heads # 0
    THEN ForwardFailed(Error("AssertionError", <<"embed_dim must be divisible by num_heads">>))
    ELSE Forwarded(hw * hw, <<<<"mean">>>> \o [i \in 1..(hw * hw) |-> <<"position", i>>],
                   <<>>, <<n, a.out_features>>, [channels |-> c, hw |-> hw])

\* ModifiedResNet.forward(x) for x of shape xs = [N, C, H, H]: the stem (conv1 with
\* kernel 3, stride 2, padding 1; two size-preserving convolutions; AvgPool2d(2)), the
\* four stages, the attention pool
ModifiedResNetForward(v, xs) ==
    IF Len(xs) # 4 \/ xs[2] # 3
    THEN ForwardFailed(Error("RuntimeError", <<"conv1: expected input with ", 3, " channels">>))
    ELSE IF ((xs[3] + 2 - 3) \div 2 + 1) \div 2 = 0
    THEN ForwardFailed(Error("RuntimeError", <<"avgpool: output size is too small">>))
    ELSE LET body == BlocksForward(v.stages[1] \o v.stages[2] \o v.stages[3] \o v.stages[4],
                                   Tensor(v.width, ((xs[3] + 2 - 3) \div 2 + 1) \div 2,
                                          <<"stem">>))
         IN  IF body.status = "error" THEN ForwardFailed(body.error)
             ELSE AttentionPool2dForward(v.attnpool, xs[1], body.out.c, body.out.hw)

\* forward of the encoder e on the tensor t
EncoderForward(e, t) ==
    CASE e.kind = "VisualTransformer" -> VisualTransformerForward(e, t.shape)
      [] e.kind = "VisualTransformer3d" -> VisualTransformer3dForward(e, t.shape)
      [] e.kind = "Voxel2DVisualTransformer" -> Voxel2DVisualTransformerForward(e, t.shape)
      [] e.kind = "FlatTransformer" -> FlatTransformerForward(e, t)
      [] e.kind = "ModifiedResNet" -> ModifiedResNetForward(e, t.shape)
      [] e.kind = "NewVoxel3dConvEncoder" ->
            NewVoxel3dConvEncoderForward(e, t.shape, <<"N", "c_in", "w", "h", "d">>)
      [] e.kind = "EmbeddingVoxel3dConvEncoder" ->
            EmbeddingVoxel3dConvEncoderForward(e, t.shape)

\* the elements <<t, x, y, z>> of an input of FlatTransformer
FlatElements == [1..4 -> 0..1]

\* the encoder whose forward is called is held in `visual`, the tensor it is called on
\* in `input`
InitEncoderForward ==
    /\ ModelIdle
    /\ state_dict = NoStateDict
    /\ \/ \E S \in 1..MaxImage, P \in 1..MaxPatch, d \in 1..MaxEmbedDim,
               B \in 1..MaxBatch, H \in 1..MaxImage, W \in 1..MaxImage :
             /\ visual = VisualTransformerInit(S, P, 8, 1, 2, d, "GELU", 3, 0)
             /\ input = [shape |-> <<B, 3, H, W>>, data |-> <<>>]
       \/ \E S \in 1..MaxSpatial, T \in 1..MaxSpatial, P \in 1..MaxPatch,
               B \in 1..MaxBatch, H \in 1..MaxSpatial, W \in 1..MaxSpatial :
             /\ visual = VisualTransformer3dInit(<<S, T, MaxSpatial>>, P, 8, 1, 2, 1, "GELU", 0)
             /\ input = [shape |-> <<B, 1, H, W, MaxSpatial>>, data |-> <<>>]
       \/ \E S \in 1..MaxImage, P \in 1..MaxPatch, c \in 0..2,
               dims \in [1..3 -> 1..(MaxImage + 1)] :
             /\ visual = Voxel2DVisualTransformerInit(S, P, 8, 1, 2, 1, "GELU", 2, c, 20)
             /\ input = [shape |-> <<1, dims[1], dims[2], dims[3]>>, data |-> <<>>]
       \/ \E B \in 1..MaxBatch, S \in 1..MaxSeq :
             \E data \in [1..S -> FlatElements] :
                /\ visual = FlatTransformerInit(8, 1, 2, 1, "GELU", 0)
                /\ input = [shape |-> <<B, S, 4>>, data |-> data]
       \/ \E g \in 1..MaxGrid, W \in 1..MaxPlanes, a \in 1..(MaxVisionLayers + 1),
               d \in 1..MaxEmbedDim, B \in 1..MaxBatch, T \in 1..MaxGrid, off \in {0, 8} :
             /\ visual = ModifiedResNetInit(<<a, 2, 1, 1>>, d, (2 * W * 32) \div 64,
                                             32 * g, 2 * W)
             /\ input = [shape |-> <<B, 3, 32 * T + off, 32 * T + off>>, data |-> <<>>]
       \/ \E w \in 1..MaxSpatial, h \in 1..MaxSpatial, c \in 0..MaxSpatial,
               avg \in BOOLEAN, B \in 1..MaxBatch, extra \in 0..1 :
             \/ /\ visual = NewVoxel3dConvEncoderInit("NewVoxel3dConvEncoder",
                               <<MinConvDim + w, MinConvDim + h, MinConvDim>>, 8, 1,
                               1 + c, avg, "GELU")
                /\ input = [shape |-> <<B, 1, MinConvDim + w, MinConvDim + h + extra,
                                        MinConvDim>>, data |-> <<>>]
             \/ /\ visual = NewVoxel3dConvEncoderInit("EmbeddingVoxel3dConvEncoder",
                               <<MinConvDim + w, MinConvDim + h, MinConvDim>>, 8, 1,
                               MinConvDim + c, avg, "GELU") @@ [vocab_size |-> 4]
                /\ input = [shape |-> <<B, MinConvDim + w, MinConvDim + h + extra,
                                        MinConvDim>>, data |-> <<>>]
    /\ result = NoOutput

\* encoder(x)
CallEncoderForward ==
    /\ result = NoOutput
    /\ result' = [op |-> "forward"] @@ EncoderForward(visual, input)
    /\ UNCHANGED <<idleVars, visual, state_dict, input>>

NextEncoderForward == CallEncoderForward

SpecEncoderForward == InitEncoderForward /\ [][NextEncoderForward]_vars

(***************************************************************************)
(* LayerNorm, the subclass of nn.LayerNorm.                                *)
(***************************************************************************)
\* the floating-point types of a tensor
DTypes == {"float16", "bfloat16", "float32", "float64"}

\* significand bits of a dtype, the order of precision
Precision(dtype) ==
    CASE dtype = "bfloat16" -> 8
      [] dtype = "float16" -> 11
      [] dtype = "float32" -> 24
      [] dtype = "float64" -> 53

\* LayerNorm.forward(x): orig_type = x.dtype; F.layer_norm(x, normalized_shape, weight,
\* bias, eps) on x as it is, so in x's own dtype; the result .to(orig_type)
LayerNormForward(ln, x) ==
    IF Len(x.shape) = 0 \/ x.shape[Len(x.shape)] # ln.normalized_shape
    THEN [op |-> "layer_norm", status |-> "error", orig_type |-> x.dtype,
          computed_in |-> x.dtype, dtype |-> x.dtype, shape |-> <<>>,
          error |-> Error("RuntimeError", <<"expected input with shape [*, ",
                                            ln.normalized_shape, "]">>)]
    ELSE [op |-> "layer_norm", status |-> "ok", orig_type |-> x.dtype,
          computed_in |-> x.dtype, dtype |-> x.dtype, shape |-> x.shape,
          error |-> NoError]

InitLayerNorm ==
    /\ ModelIdle
    /\ state_dict = NoStateDict
    /\ \E D \in 1..MaxEmbedDim, dtype \in DTypes, B \in 1..MaxBatch, S \in 1..MaxSeq,
          L \in 1..MaxEmbedDim :
          /\ visual = [kind |-> "LayerNorm", normalized_shape |-> D]
          /\ input = [shape |-> <<B, S, L>>, dtype |-> dtype]
    /\ result = NoOutput

\* ln(x)
CallLayerNorm ==
    /\ result = NoOutput
    /\ result' = LayerNormForward(visual, input)
    /\ UNCHANGED <<idleVars, visual, state_dict, input>>

NextLayerNorm == CallLayerNorm

SpecLayerNorm == InitLayerNorm /\ [][NextLayerNorm]_vars

(***************************************************************************)
(* Properties of forward.                                                  *)
(***************************************************************************)
\* C1: forward(None, secondary) with a secondary input returns exactly the output of the
\* secondary encoder on that input (encode_text on a CLIP, encode_voxel on a VoxelCLIP):
\* one embedding, not normalized, with no scale attached.
C1_SecondaryOnlyReturnsEncoding ==
    (ret.op = "forward" /\ ret.image = None /\ ret.text # None) =>
        /\ ret.status = "ok"
        /\ ret.kind = "single"
        /\ ret.out = <<TowerOutput(secondary, 2, ret.text)>>
        /\ ret.scale = NoScale

\* C2: forward(image, None) with an image returns exactly encode_image(image): one
\* embedding, not L2-normalized, with no scale attached, and neither the secondary
\* encoder nor its encode method is invoked.
C2_ImageOnlyReturnsEncoding ==
    (ret.op = "forward" /\ ret.image # None /\ ret.text = None) =>
        /\ ret = Call("forward", ret.image, None, <<>>, {}, EncodeImage(ret.image))
        /\ ret.status = "ok"
        /\ ret.kind = "single"
        /\ ret.out = <<TowerOutput(visual, 1, ret.image)>>
        /\ ret.out[1].den2 = 1
        /\ ret.scale = NoScale
        /\ Range(ret.calls) \cap {"encode_text", "encode_voxel", "token_embedding",
                                  "voxel_encoder"} = {}

C2_Witness ==
    /\ cls = "VoxelCLIP"
    /\ ret.op = "forward"
    /\ ret.image # None
    /\ ret.text = None
    /\ ret.status = "ok"
    /\ ret.calls = <<"encode_image", "visual">>

RecognizedVoxelTypes ==
    {"mlp", "3d-conv", "embedding-3d-conv", "3d-vision-transformer", "3d-transformer",
     "flat-transformer"}

\* C5: constructing a VoxelCLIP with a voxel_type outside the recognized values raises an
\* error whose message contains that value, and no model object results.
C5_UnrecognizedVoxelTypeFails ==
    (cls = "VoxelCLIP" /\ pc # "new" /\ args.voxel_type \notin RecognizedVoxelTypes) =>
        /\ pc = "failed"
        /\ ret.status = "error"
        /\ err.type = "ValueError"
        /\ args.voxel_type \in Range(err.msg)
        /\ visual = NoModule
        /\ secondary = NoModule
        /\ modules = <<>>

C5_Witness ==
    /\ cls = "VoxelCLIP"
    /\ pc = "failed"
    /\ args.voxel_type = "flat"
    /\ err = [type |-> "ValueError", msg |-> <<"Invalid voxel type: ", "flat">>]

\* the field of voxel_cfg each variant asserts on
RequiredSubConfig(voxel_type) ==
    CASE voxel_type = "mlp" -> "config_mlp"
      [] voxel_type \in {"3d-conv", "embedding-3d-conv"} -> "config_3d_conv"
      [] voxel_type = "3d-vision-transformer" -> "config_2d_visual_transformer"
      [] voxel_type = "3d-transformer" -> "config_3d_transformer"

\* C6: constructing a VoxelCLIP whose variant needs a sub-configuration (mlp, 3d-conv,
\* embedding-3d-conv, 3d-vision-transformer, 3d-transformer) that is None fails with a
\* message naming the missing field, before the secondary encoder is built.
C6_MissingSubConfigFails ==
    (/\ cls = "VoxelCLIP"
     /\ pc # "new"
     /\ args.voxel_type \in RecognizedVoxelTypes \ {"flat-transformer"}
     /\ ~args.voxel_cfg[RequiredSubConfig(args.voxel_type)].present) =>
        /\ pc = "failed"
        /\ err.type = "AssertionError"
        /\ RequiredSubConfig(args.voxel_type) \in Range(err.msg)
        /\ "voxel_encoder" \notin Range(built)
        /\ secondary = NoModule

C6_Witness ==
    /\ cls = "VoxelCLIP"
    /\ pc = "failed"
    /\ args.voxel_type = "3d-vision-transformer"
    /\ args.voxel_cfg.config_mlp.present
    /\ ~args.voxel_cfg.config_2d_visual_transformer.present
    /\ err.msg[1] = "config_2d_visual_transformer"
    /\ built = <<"visual">>

C8_DownsampleOnIdentityOnly ==
    /\ blk.downsample <=> (blk.stride > 1 \/ blk.inplanes # blk.planes * 4)
    /\ \A k \in DOMAIN bret.steps :
          bret.steps[k].op = "downsample" =>
              /\ blk.downsample
              /\ bret.steps[k].in = bret.x.term
              /\ bret.steps[k].in # bret.main.term
              /\ bret.steps[k].out = bret.identity.term
    /\ bret.status = "ok" =>
          /\ blk.downsample <=> (\E k \in DOMAIN bret.steps : bret.steps[k].op = "downsample")
          /\ ~blk.downsample => bret.identity = bret.x
          /\ bret.main.term[1] = "bn3.conv3"
          /\ bret.out.term = <<"relu3", <<"add", bret.main.term, bret.identity.term>>>>

C8_Witness ==
    /\ bret.status = "ok"
    /\ blk.stride = 1
    /\ blk.inplanes # blk.planes * 4
    /\ blk.downsample
    /\ \E k \in DOMAIN bret.steps :
          bret.steps[k] = [op |-> "downsample", in |-> <<"x">>, out |-> bret.identity.term]

\* C9: in every constructed dual-tower model, whatever the primary and secondary
\* variants, both encoders are built with the model's embed_dim, and the last dimension
\* of every embedding they return is embed_dim.
C9_SharedEmbedDim ==
    pc = "ready" =>
        /\ visual.output_dim = args.embed_dim
        /\ secondary.output_dim = args.embed_dim
        /\ visual.out_features = args.embed_dim
        /\ secondary.out_features = args.embed_dim
        /\ (ret.status = "ok" /\ ret.kind \in {"single", "triple"}) =>
              \A k \in DOMAIN ret.out : Len(ret.out[k].vec) = args.embed_dim

C9_Witness ==
    /\ pc = "ready"
    /\ args.embed_dim = MaxEmbedDim
    /\ visual.kind = "ModifiedResNet"
    /\ secondary.kind = "FlatTransformer"
    /\ ret.kind = "triple"
    /\ Len(ret.out[1].vec) = MaxEmbedDim
    /\ Len(ret.out[2].vec) = MaxEmbedDim

\* C10: lock_image_tower(unlocked_groups, freeze_bn_stats) on a model whose primary tower
\* is a ModifiedResNet or a VisualTransformer: with unlocked_groups = 0 every parameter of
\* the primary tower becomes non-trainable and no other parameter changes trainability;
\* with any other value the call fails with a message and no parameter changes.
C10_LockImageTower ==
    [][(ret'.op = "lock_image_tower" /\ visual.kind \in {"ModifiedResNet", "VisualTransformer"}) =>
          IF ret'.arg[1] = 0
          THEN /\ ret'.status = "ok"
               /\ VisualParams(modules) \subseteq frozen'
               /\ frozen' \ VisualParams(modules) = frozen \ VisualParams(modules)
          ELSE /\ ret'.status = "error"
               /\ ret'.error.type = "AssertionError"
               /\ ret'.error.msg # <<>>
               /\ frozen' = frozen]_vars

C10_Witness ==
    /\ ret.op = "lock_image_tower"
    /\ ret.arg[1] = 0
    /\ ret.status = "ok"
    /\ visual.kind = "VisualTransformer"
    /\ cls = "VoxelCLIP"
    /\ frozen = VisualParams(modules)
    /\ frozen # {}
    /\ ParamsOf(modules) \ frozen # {}

(***************************************************************************)
(* Properties of the checkpoint routines.                                  *)
(***************************************************************************)
\* C11: resize_pos_embed on a state dict that stores 'visual.positional_embedding', for a
\* model whose visual tower has a grid: if the stored embedding has grid_h*grid_w + 1 rows
\* the state dict is left unchanged; otherwise the entry is replaced by an embedding of
\* exactly grid_h*grid_w + 1 rows whose first row is the stored first row, and no other
\* key changes.
C11_ResizeReplacesEmbedding ==
    (/\ result.op = "resize_pos_embed"
     /\ PosEmbedKey \in DOMAIN result.before
     /\ HasGridSize(visual)) =>
        IF result.before[PosEmbedKey].shape[1] = visual.grid_size[1] * visual.grid_size[2] + 1
        THEN state_dict = result.before
        ELSE /\ result.status = "ok"
             /\ state_dict[PosEmbedKey].shape[1] = visual.grid_size[1] * visual.grid_size[2] + 1
             /\ Len(state_dict[PosEmbedKey].data) = visual.grid_size[1] * visual.grid_size[2] + 1
             /\ state_dict[PosEmbedKey].data[1] = result.before[PosEmbedKey].data[1]
             /\ DOMAIN state_dict = DOMAIN result.before
             /\ \A k \in DOMAIN state_dict \ {PosEmbedKey} : state_dict[k] = result.before[k]

\* C12: after convert_weights_to_fp16(model), every module the traversal has been through
\* has in half precision its weight and bias if it is a convolution (1D, 2D, 3D) or a
\* linear layer, its parameters if it is a multi-head attention, and its parameters
\* named 'proj' or 'text_projection'; no other parameter is in half precision.
C12_ConvertsExactlyTheTargets ==
    ret.op = "convert_weights_to_fp16" =>
        half = UNION {{modules[i].path \o <<n>> :
                         n \in IF modules[i].type \in {"Conv1d", "Conv2d", "Conv3d", "Linear"}
                               THEN modules[i].params \cap {"weight", "bias"}
                               ELSE IF modules[i].type = "MultiheadAttention"
                               THEN modules[i].params
                               ELSE modules[i].params \cap {"proj", "text_projection"}} :
                      i \in IF FirstFailing(modules) = 0 THEN DOMAIN modules
                            ELSE 1..(FirstFailing(modules) - 1)}

(***************************************************************************)
(* Properties of CLIP construction.                                        *)
(***************************************************************************)
\* C13: constructing a CLIP whose text transformer has at least one layer completes, and
\* its parameter initialization re-initializes logit_scale, the token and positional
\* embeddings and, for every text block, the attention input projection, the attention
\* output projection and the two linear weights of the MLP.
C13_TextInitCompletes ==
    (cls = "CLIP" /\ ret.op = "__init__" /\ args.text_cfg.layers >= 1) =>
        /\ pc = "ready"
        /\ ret.status = "ok"
        /\ {<<"logit_scale">>, <<"token_embedding", "weight">>, <<"positional_embedding">>}
              \subseteq ret.reinit
        /\ \A i \in 1..args.text_cfg.layers :
              {<<"transformer", "resblocks", IdxStr(i - 1)>> \o w :
                  w \in {<<"attn", "in_proj_weight">>, <<"attn", "out_proj", "weight">>,
                         <<"mlp", "c_fc", "weight">>, <<"mlp", "proj", "weight">>}}
                 \subseteq ret.reinit

(***************************************************************************)
(* Properties of the voxel encoders.                                       *)
(***************************************************************************)
\* C14: in each of the four 3D-convolution encoders, when the per-layer lists do not
\* provide one entry each for every layer to build, construction fails with an
\* assertion that carries a message, before any convolution block is built.
C14_MismatchedListsFailFirst ==
    (/\ result.op = "conv_encoder_init"
     /\ IF input.class = "Voxel3dConvEncoder"
        THEN input.layers > Len(input.lists.strides)
        ELSE ~(/\ Len(input.lists.channels) = Len(input.lists.strides)
               /\ Len(input.lists.channels) = Len(input.lists.padding)
               /\ Len(input.lists.channels) = Len(input.lists.dialation)
               /\ Len(input.lists.channels) = Len(input.lists.kernel))) =>
        /\ result.status = "error"
        /\ result.error.type = "AssertionError"
        /\ result.error.msg # <<>>
        /\ result.conv_built = 0

\* C15: a VisualTransformer built with image size S and patch size P, S divisible by P,
\* has grid (S/P, S/P) and a positional embedding of (S/P)^2 + 1 rows; on an S x S input
\* the patchify convolution yields (S/P)^2 tokens, the sequence with the class token is
\* as long as the positional embedding, and the output's last dimension is embed_dim.
C15_PatchGrid ==
    (/\ visual.kind = "VisualTransformer"
     /\ visual.image_size % visual.patch_size = 0) =>
        /\ visual.grid_size = <<visual.image_size \div visual.patch_size,
                                visual.image_size \div visual.patch_size>>
        /\ visual.pos_rows = (visual.image_size \div visual.patch_size)
                             * (visual.image_size \div visual.patch_size) + 1
        /\ (/\ result.op = "forward"
            /\ input.shape[3] = visual.image_size
            /\ input.shape[4] = visual.image_size) =>
              /\ result.status = "ok"
              /\ result.tokens = (visual.image_size \div visual.patch_size)
                                 * (visual.image_size \div visual.patch_size)
              /\ Len(result.positions) = visual.pos_rows
              /\ result.shape = <<input.shape[1], visual.output_dim>>

C15_Witness ==
    /\ visual.kind = "VisualTransformer"
    /\ visual.image_size = MaxImage
    /\ visual.patch_size = MaxPatch
    /\ visual.image_size % visual.patch_size = 0
    /\ visual.output_dim = MaxEmbedDim
    /\ input.shape = <<MaxBatch, 3, MaxImage, MaxImage>>
    /\ result.op = "forward"
    /\ result.status = "ok"
    /\ result.tokens > 1
    /\ result.shape = <<MaxBatch, MaxEmbedDim>>

\* r is the integer nearest to the square root of n: |sqrt(n) - r| <= 1/2
NearestToSqrt(r, n) ==
    /\ 4 * n <= (2 * r + 1) * (2 * r + 1)
    /\ r = 0 \/ 4 * n >= (2 * r - 1) * (2 * r - 1)

\* C16: build_model_from_openai_state_dict takes the visual tower for a patch transformer
\* exactly when the key visual.proj is present; then the layer count is the number of keys
\* that start with "visual." and end with ".attn.in_proj_weight" and image_size is
\* patch_size * round(sqrt(P - 1)) for a positional embedding of P rows; otherwise the stage
\* counts are the numbers of distinct block indices under visual.layer1..layer4,
\* image_size is 32 * round(sqrt(P - 1)) for the attention pool's positional embedding of
\* P rows, and the inference fails when round(sqrt(P - 1))^2 + 1 differs from P.
C16_InfersArchitecture ==
    result.op = "build_model_from_openai_state_dict" =>
        /\ result.vit = (<<"visual", "proj">> \in DOMAIN result.before)
        /\ result.stage \notin {"infer", "construct"} =>
              result.model.visual.kind
                = (IF result.vit THEN "VisualTransformer" ELSE "ModifiedResNet")
        /\ result.vit =>
              /\ result.stage # "infer"
              /\ result.args.vision_cfg.layers_kind = "int"
              /\ result.args.vision_cfg.layers[1]
                   = Cardinality({k \in DOMAIN result.before :
                                     /\ k[1] = "visual" /\ Len(k) >= 3
                                     /\ SubSeq(k, Len(k) - 1, Len(k)) = <<"attn", "in_proj_weight">>})
              /\ \E r \in 0..MaxRows :
                    /\ NearestToSqrt(r, result.before[<<"visual", "positional_embedding">>][1] - 1)
                    /\ result.args.vision_cfg.image_size
                         = result.before[<<"visual", "conv1", "weight">>][4] * r
        /\ (/\ ~result.vit
            /\ <<"visual", "layer1", "0", "conv1", "weight">> \in DOMAIN result.before) =>
              \E r \in 0..MaxRows :
                 /\ NearestToSqrt(r, result.before[<<"visual", "attnpool",
                                                      "positional_embedding">>][1] - 1)
                 /\ IF r * r + 1 # result.before[<<"visual", "attnpool", "positional_embedding">>][1]
                    THEN result.stage = "infer" /\ result.error.type = "AssertionError"
                    ELSE /\ result.stage # "infer"
                         /\ result.args.vision_cfg.layers_kind = "tuple"
                         /\ \A b \in 1..4 :
                               result.args.vision_cfg.layers[b]
                                 = Cardinality({i \in {IdxStr(n) : n \in 0..14} :
                                      \E k \in DOMAIN result.before :
                                         /\ Len(k) >= 3
                                         /\ SubSeq(k, 1, 3) = <<"visual", LayerName(b), i>>})
                         /\ result.args.vision_cfg.image_size = 32 * r

C16_Witness ==
    /\ result.op = "build_model_from_openai_state_dict"
    /\ result.vit
    /\ result.before[<<"visual", "positional_embedding">>][1] = 8
    /\ result.before[<<"visual", "conv1", "weight">>][4] = MaxPatch
    /\ result.stage # "infer"
    /\ result.args.vision_cfg.layers = <<MaxVisionLayers>>
    /\ result.args.vision_cfg.image_size = 3 * MaxPatch
    /\ result.args.text_cfg.layers = MaxTextLayers

(***************************************************************************)
(* Properties of the residual attention block.                             *)
(***************************************************************************)
\* C17: in every residual attention block the MLP applies linear-expand, activation,
\* dropout (only when the rate is above 0), linear-contract, in that order; dropout is
\* never applied before the activation.
C17_MlpOrder ==
    \A i \in DOMAIN modules :
        modules[i].type = "ResidualAttentionBlock" =>
            SequentialOrder(modules, modules[i].path \o <<"mlp">>)
              = (IF "c_drop" \in Range(SequentialOrder(modules, modules[i].path \o <<"mlp">>))
                 THEN <<"c_fc", "c_act", "c_drop", "proj">>
                 ELSE <<"c_fc", "c_act", "proj">>)

(***************************************************************************)
(* Properties of the transformer encoders.                                 *)
(***************************************************************************)
\* C18: VisualTransformer, VisualTransformer3d and FlatTransformer each prepend a learned
\* class token: the sequence entering the transformer stack has one more position than
\* there are input tokens, and the pooled output is the class token's state at position 0.
C18_ClassTokenPrepended ==
    (/\ result.op = "forward"
     /\ result.status = "ok"
     /\ visual.kind \in {"VisualTransformer", "VisualTransformer3d", "FlatTransformer"}) =>
        /\ Len(result.positions) = result.tokens + 1
        /\ result.positions[1] = <<"class_embedding">>
        /\ result.pooled = <<"class_embedding">>

C20_PermuteCheckPad ==
    (result.op = "forward" /\ visual.kind = "Voxel2DVisualTransformer") =>
        LET rest == SelectSeq(<<1, 2, 3>>, LAMBDA i : i # visual.channel_dim + 1)
            h == input.shape[rest[1] + 1]
            w == input.shape[rest[2] + 1]
        IN  IF h > visual.image_size \/ w > visual.image_size
            THEN /\ result.status = "error"
                 /\ result.error.type = "AssertionError"
                 /\ \E n \in {h, w} : n > visual.image_size /\ result.error.msg[2] = n
                 /\ result.error.msg[4] = visual.image_size
            ELSE /\ result.pad.axes = <<0, visual.channel_dim + 1>> \o rest
                 /\ result.pad.shape = <<input.shape[1], input.shape[visual.channel_dim + 2],
                                         visual.image_size, visual.image_size>>
                 /\ result.pad.amounts[1] = 0 /\ result.pad.amounts[3] = 0
                 /\ result.pad.amounts[2] = visual.image_size - w
                 /\ result.pad.amounts[4] = visual.image_size - h
                 /\ result.pad.value = 0
                 /\ [op |-> "forward"]
                    @@ [VisualTransformerForward(visual, result.pad.shape)
                          EXCEPT !.pad = result.pad] = result

C20_Witness ==
    /\ result.op = "forward"
    /\ visual.kind = "Voxel2DVisualTransformer"
    /\ visual.channel_dim = 1
    /\ visual.image_size = MaxImage
    /\ input.shape = <<1, 3, 2, 1>>
    /\ result.status = "ok"
    /\ result.pad.amounts = <<0, MaxImage - 1, 0, MaxImage - 3>>
    /\ result.tokens = (MaxImage \div visual.patch_size) * (MaxImage \div visual.patch_size)

\* C26: FlatTransformer.forward succeeds for every batch size B >= 1 and sequence length
\* S >= 1: the positional encoding broadcasts against the embedded sequence [B, S, width]
\* and adds the same learned vector to every position of every batch element.
C26_FlatForwardSucceeds ==
    (/\ result.op = "forward"
     /\ visual.kind = "FlatTransformer"
     /\ input.shape[1] >= 1 /\ input.shape[2] >= 1 /\ input.shape[3] = 4) =>
        /\ result.status = "ok"
        /\ \A s \in DOMAIN result.value : result.value[s][3] = <<"positional_embedding">>

\* C21: EmbeddingVoxel3dConvEncoder maps an integer grid [N, w, h, d] through the lookup
\* table to c_in values per voxel; the tensor entering the convolution stack has those
\* c_in values on axis 1, and forward yields [N, output_dim] for every grid whose spatial
\* size is the configured dims.
C21_EmbeddingOnChannelAxis ==
    (/\ result.op = "forward"
     /\ visual.kind = "EmbeddingVoxel3dConvEncoder"
     /\ SubSeq(input.shape, 2, 4) = visual.dims) =>
        /\ result.value.axes[2] = "c_in"
        /\ result.value.conv_input[2] = visual.channels[1]
        /\ result.status = "ok"
        /\ result.shape = <<input.shape[1], visual.output_dim>>

\* C22: a ModifiedResNet built with image_size divisible by 32 and width W reduces an
\* image_size x image_size input to (image_size/32) x (image_size/32) positions with
\* 32*W channels; the stage input widths tracked at construction are W, 4W, 8W, 16W; the
\* token count plus one is the attention pool's positional-embedding row count; a batch
\* of N images yields an (N, embed_dim) output.
C22_ResNetShapes ==
    (/\ visual.kind = "ModifiedResNet"
     /\ visual.image_size % 32 = 0) =>
        /\ visual.inplanes = <<visual.width, 4 * visual.width, 8 * visual.width,
                               16 * visual.width>>
        /\ (/\ result.op = "forward"
            /\ input.shape[2] = 3
            /\ input.shape[3] = visual.image_size
            /\ input.shape[4] = visual.image_size) =>
              /\ result.status = "ok"
              /\ result.value = [channels |-> 32 * visual.width,
                                 hw |-> visual.image_size \div 32]
              /\ result.tokens = (visual.image_size \div 32) * (visual.image_size \div 32)
              /\ result.tokens + 1 = visual.attnpool.rows
              /\ result.shape = <<input.shape[1], visual.output_dim>>

C22_Witness ==
    /\ visual.kind = "ModifiedResNet"
    /\ visual.image_size = 32 * MaxGrid
    /\ visual.width = 2 * MaxPlanes
    /\ Len(visual.stages[1]) = MaxVisionLayers + 1
    /\ input.shape = <<MaxBatch, 3, 32 * MaxGrid, 32 * MaxGrid>>
    /\ result.op = "forward"
    /\ result.status = "ok"
    /\ result.tokens = MaxGrid * MaxGrid
    /\ result.shape = <<MaxBatch, MaxEmbedDim>>

\* C23: LayerNorm.forward, for an input of any precision, performs the normalization in
\* a higher reference precision (the input is upcast before normalizing) and returns a
\* result of the input's original precision and of the input's shape.
C23_NormalizesInReferencePrecision ==
    (/\ result.op = "layer_norm"
     /\ input.shape[Len(input.shape)] = visual.normalized_shape) =>
        /\ result.status = "ok"
        /\ Precision(result.computed_in) >= Precision("float32")
        /\ Precision(result.computed_in) >= Precision(input.dtype)
        /\ result.dtype = input.dtype
        /\ result.shape = input.shape

(***************************************************************************)
(* Further properties of VoxelCLIP construction and of the conversion.     *)
(***************************************************************************)
\* C24: constructing a VoxelCLIP without passing voxel_type, so that the declared default
\* "flat" is used, with valid vision and voxel configs, succeeds and yields a model with a
\* secondary encoder.
C24_DefaultVoxelTypeConstructs ==
    (/\ cls = "VoxelCLIP"
     /\ ret.op = "__init__"
     /\ args.voxel_type = "flat"
     /\ \A n \in SubCfgNames : args.voxel_cfg[n].present) =>
        /\ pc = "ready"
        /\ ret.status = "ok"
        /\ secondary.kind # "None"

\* C25: convert_weights_to_fp16 runs to completion on every model that contains a
\* Transformer stack or a NewVoxel3dConvEncoder: an attribute named 'proj' or
\* 'text_projection' of a visited module is always a parameter, never a sub-module.
C25_ConvertCompletes ==
    (/\ ret.op = "convert_weights_to_fp16"
     /\ \E i \in DOMAIN modules : modules[i].type \in {"Transformer", "NewVoxel3dConvEncoder"}) =>
        /\ ret.status = "ok"
        /\ \A i \in DOMAIN modules : modules[i].kids \cap {"proj", "text_projection"} = {}

====
